---------------------------- MODULE Spec2Model ----------------------------
(***************************************************************************)
(* A model of the Crossref preprint harvester and shard merger             *)
(* (src/src/preprint_harvester/harvest_crossref.py and merge_parquets.py). *)
(*                                                                         *)
(* The module holds several state machines that share one variable list;  *)
(* every specification runs one of them and keeps the others idle:          *)
(*   SpecPartition / SpecPartitionFair  _iter_subwindows_adaptive           *)
(*   SpecFetch                          _fetch_page                         *)
(*   SpecStream / SpecStreamFair        _stream_with_filters and            *)
(*                                      _stream_doi_only                    *)
(*   SpecMerge                          merge_parquets_and_report           *)
(*   SpecSchema                         _collect_unified_schema and         *)
(*                                      _align_table_to_schema in the merge *)
(*   SpecDiscover                       discover_parquet_files              *)
(*   SpecHarvest / SpecHarvestFair      harvest_preprints_dataframe and the *)
(*                                      merger's reading of shard names     *)
(*   SpecRehydrate                      the DOI-first branch of             *)
(*                                      _process_subwindow with             *)
(*                                      _fetch_work_by_doi                  *)
(***************************************************************************)
EXTENDS Integers, Sequences, FiniteSets, TLC

(***************************************************************************)
(* Bounds of the model.                                                    *)
(***************************************************************************)
\* Most items one DOI listing holds.
MaxListing == 2
\* max_retries of _fetch_work_by_doi (6 in the source), scaled down.
MaxWorkRetries == 2
\* Ticks per second: datetimes carry sub-second parts (datetime.max.time()
\* is 23:59:59.999999); one second is TicksPerSec ticks and the sub-second
\* part of an end-of-day bound is TicksPerSec - 1 ticks.
TicksPerSec == 2
\* Longest input window of the partitioner, in whole seconds.
MaxLen == 4
\* Most records the catalogue holds at one second.
MaxCnt == 2
\* Largest adaptive threshold tried.
MaxThreshold == 2
\* Largest min_window_seconds tried.
MaxMinWindow == 1
\* Largest max_retries tried for one page fetch.
MaxRetries == 3
\* Number of distinct cursor values the API may return (cursor 1 is "*").
MaxCursors == 2
\* Most items on one page.
MaxPage == 2
\* Largest total-results advertised on the first page.
MaxTotal == 3
\* Most shard files discovered by one merge run.
MaxShards == 2
\* Number of calendar days the harvest range is drawn from.
MaxDays == 2
\* Largest batch_days tried.
MaxBatchDays == 2
\* Most parent directories given to one discovery.
MaxParents == 2

VARIABLES
    \* ---- window partitioner (_iter_subwindows_adaptive) ----
    cnt,                 \* the catalogue: records per second of the window
    threshold,           \* parameter threshold
    min_window_seconds,  \* parameter min_window_seconds
    root,                \* the input window [start_dt, end_dt], in ticks
    stack,               \* pending recursive calls, innermost first
    leaves,              \* the (from_iso, until_iso) pairs yielded so far
    probes,              \* history: every probed window, its total and what was done
    splits,              \* history: every bisection (parent, left, right)
    ppc,                 \* "run" | "done" | "raised"
    \* ---- one page fetch (_fetch_page) ----
    max_retries,         \* parameter max_retries
    attempt,             \* the loop variable of line 109: attempts made so far
    last_exc,            \* last_exc: "none" or the kind of the last exception caught
    slept,               \* total backoff slept, in units of base_sleep
    fhist,               \* history: per attempt, the response and whether a sleep followed
    fpc,                 \* "loop" | "returned_json" | "returned_none" | "raised"
    \* ---- paginated stream (_stream_with_filters, _stream_doi_only) ----
    selector,            \* "full" (_stream_with_filters) | "doi" (_stream_doi_only)
    total_known,         \* FALSE while total is None
    total,               \* total
    yielded,             \* yielded
    last_cursors,        \* last_cursors
    cursor,              \* params["cursor"]
    spc,                 \* "fetch" | "done" | "raised"
    reason,              \* history: which break ended the loop
    last_yield,          \* history: items yielded from the last page
    empty_cursors,       \* history: next-cursors that came with an empty page
    empty_repeat,        \* history: the last page was empty and repeated such a cursor
    submits,             \* history: requests sent per cursor value (counted up to 3)
    \* ---- shard merger (merge_parquets_and_report) ----
    shards,              \* the discovered shard files in report order: their rows
    schema_read,         \* shards whose schema _collect_unified_schema could read
    idx,                 \* position of the loop of line 223 in all_paths
    writer,              \* "none" | "open" | "closed"
    parquet_ok,          \* parquet_ok
    tmp_exists,          \* out_parquet_tmp exists on disk
    tmp_rows,            \* rows written through the ParquetWriter
    out_parquet,         \* rows of the final columnar file (only once final_exists)
    final_exists,        \* out_parquet exists on disk
    out_csv,             \* rows of the text mirror
    first_csv,           \* first_csv
    total_rows_written,  \* total_rows_written
    merged,              \* history: shards whose rows were counted as written
    ret_parquet,         \* the returned "parquet" entry: "path" | "None" | "unset"
    mpc,                 \* "schema" | "open" | "loop" | "close" | "finalize" |
                         \* "report" | "done" | "raised"
    report_df,           \* report_df: per shard, the rows and suspected_incomplete entries
    report,              \* the summary written to the report (lines 283-291)
    \* ---- harvest orchestrator (harvest_preprints_dataframe) ----
    date_start,          \* start: the first day of the range, a day ordinal
    date_end,            \* end: the last day of the range
    batch_days,          \* parameter batch_days
    incremental_save_dir,\* parameter incremental_save_dir, <<>> for None
    doi_refetch_enabled, \* parameter doi_refetch_enabled
    doi_refetch_threshold, \* parameter doi_refetch_threshold
    cur,                 \* cur
    w_end,               \* w_end
    nsub,                \* (sub-window, prefix) pairs processed in this batch
    batch_rows,          \* batch_rows: the doi of each row
    all_rows,            \* all_rows, as the set of its rows' dois
    shard_files,         \* the shard files on disk: path, batch and rows
    last_sub,            \* history: the last _process_subwindow call
    hpc,                 \* "loop" | "windows" | "done" | "raised"
    \* ---- shard discovery (discover_parquet_files) ----
    disk,                \* the .parquet files on disk: [dir, name]
    parents,             \* parameter parents
    recursive,           \* parameter recursive
    one_level_deep,      \* parameter one_level_deep
    pidx,                \* position of the loop of line 65 in parents
    folders,             \* folders still to scan for the current parent
    seen,                \* seen
    records,             \* records
    dpc,                 \* "parent" | "folders" | "done"
    \* ---- schemas in the merge (_collect_unified_schema, _align_table_to_schema) ----
    recs,                \* recs: per shard, the rows and suspected_incomplete entries
    tables,              \* the shard files in all_paths order: fields, rows, values
    schemas,             \* schemas: the (normalized) schemas read so far
    schema_failed,       \* history: shards whose schema could not be read
    unified_schema,      \* unified_schema
    sidx,                \* position of the loops of lines 135 and 223
    outcome,             \* history: per shard of the merge loop, what happened
    rows_written,        \* total_rows_written
    abort,               \* history: "none" | "empty" | "unify": why the merge raised
    apc,                 \* "schema" | "loop" | "done" | "raised"
    \* ---- rehydration (DOI-first branch of _process_subwindow) ----
    listing,             \* the items of the DOI listing pages, in order: the DOI or ""
    lpos,                \* position in listing of the next item
    work_attempt,        \* attempt of _fetch_work_by_doi for the current DOI
    work_last_exc,       \* last_exc of _fetch_work_by_doi is set
    appended,            \* the rows appended to batch_rows by this window, as dois
    processed,           \* processed
    trail,               \* history: per listing item taken, what happened to it
    rpc                  \* "loop" | "done" | "raised"

partVars == <<cnt, threshold, min_window_seconds, root, stack, leaves, probes, splits, ppc>>

fetchVars == <<max_retries, attempt, last_exc, slept, fhist, fpc>>

streamVars == <<selector, total_known, total, yielded, last_cursors, cursor, spc,
                reason, last_yield, empty_cursors, empty_repeat, submits>>

mergeVars == <<report_df, report, shards, schema_read, idx, writer, parquet_ok, tmp_exists, tmp_rows,
               out_parquet, final_exists, out_csv, first_csv, total_rows_written,
               merged, ret_parquet, mpc>>

harvestVars == <<date_start, date_end, batch_days, incremental_save_dir,
                 doi_refetch_enabled, doi_refetch_threshold, cur, w_end, nsub,
                 batch_rows, all_rows, shard_files, last_sub, hpc>>

discoverVars == <<disk, parents, recursive, one_level_deep, pidx, folders, seen,
                  records, dpc>>

schemaVars == <<recs, tables, schemas, schema_failed, unified_schema, sidx, outcome,
                rows_written, abort, apc>>

rehydrateVars == <<listing, lpos, work_attempt, work_last_exc, appended, processed,
                   trail, rpc>>

vars == <<partVars, fetchVars, streamVars, mergeVars, harvestVars, discoverVars,
          schemaVars, rehydrateVars>>

\* The values of a machine's variables while another machine runs.
PartitionIdle ==
    /\ cnt = <<>> /\ threshold = 0 /\ min_window_seconds = 0
    /\ root = [s |-> 0, e |-> 0] /\ stack = <<>> /\ leaves = <<>>
    /\ probes = {} /\ splits = {} /\ ppc = "idle"

\* Nothing was reported yet.
NoReport == [n_files |-> 0, total_rows |-> 0, total_rows_written |-> 0, n_suspect |-> 0]

FetchIdle ==
    /\ max_retries = 0 /\ attempt = 0 /\ last_exc = "none" /\ slept = 0
    /\ fhist = <<>> /\ fpc = "idle"

StreamIdle ==
    /\ selector = "full" /\ total_known = FALSE /\ total = 0 /\ yielded = 0
    /\ last_cursors = {} /\ cursor = 0 /\ spc = "idle" /\ reason = "none"
    /\ last_yield = 0 /\ empty_cursors = {} /\ empty_repeat = FALSE
    /\ submits = <<>>

MergeIdle ==
    /\ report_df = <<>> /\ report = NoReport
    /\ shards = <<>> /\ schema_read = {} /\ idx = 0 /\ writer = "none"
    /\ parquet_ok = FALSE /\ tmp_exists = FALSE /\ tmp_rows = <<>>
    /\ out_parquet = <<>> /\ final_exists = FALSE /\ out_csv = <<>>
    /\ first_csv = FALSE /\ total_rows_written = 0 /\ merged = {}
    /\ ret_parquet = "unset" /\ mpc = "idle"

\* No _process_subwindow call was made yet.
NoSub == [probe |-> "none", sub_total |-> 0, path |-> "none", warned |-> FALSE]

HarvestIdle ==
    /\ date_start = 0 /\ date_end = 0 /\ batch_days = 0
    /\ incremental_save_dir = <<>> /\ doi_refetch_enabled = FALSE
    /\ doi_refetch_threshold = 0 /\ cur = 0 /\ w_end = 0 /\ nsub = 0
    /\ batch_rows = <<>> /\ all_rows = {} /\ shard_files = {}
    /\ last_sub = NoSub /\ hpc = "idle"

DiscoverIdle ==
    /\ disk = {} /\ parents = <<>> /\ recursive = FALSE /\ one_level_deep = FALSE
    /\ pidx = 0 /\ folders = <<>> /\ seen = {} /\ records = <<>> /\ dpc = "idle"

SchemaIdle ==
    /\ recs = <<>>
    /\ tables = <<>> /\ schemas = <<>> /\ schema_failed = {} /\ unified_schema = <<>>
    /\ sidx = 0 /\ outcome = <<>> /\ rows_written = 0 /\ abort = "none"
    /\ apc = "idle"

RehydrateIdle ==
    /\ listing = <<>> /\ lpos = 0 /\ work_attempt = 0 /\ work_last_exc = FALSE
    /\ appended = <<>> /\ processed = 0 /\ trail = <<>> /\ rpc = "idle"

PartitionOnly ==
    UNCHANGED <<fetchVars, streamVars, mergeVars, harvestVars, discoverVars,
                schemaVars, rehydrateVars>>
FetchOnly ==
    UNCHANGED <<partVars, streamVars, mergeVars, harvestVars, discoverVars,
                schemaVars, rehydrateVars>>
StreamOnly ==
    UNCHANGED <<partVars, fetchVars, mergeVars, harvestVars, discoverVars,
                schemaVars, rehydrateVars>>
MergeOnly ==
    UNCHANGED <<partVars, fetchVars, streamVars, harvestVars, discoverVars,
                schemaVars, rehydrateVars>>
HarvestOnly ==
    UNCHANGED <<partVars, fetchVars, streamVars, mergeVars, discoverVars,
                schemaVars, rehydrateVars>>
DiscoverOnly ==
    UNCHANGED <<partVars, fetchVars, streamVars, mergeVars, harvestVars,
                schemaVars, rehydrateVars>>
SchemaOnly ==
    UNCHANGED <<partVars, fetchVars, streamVars, mergeVars, harvestVars,
                discoverVars, rehydrateVars>>
RehydrateOnly ==
    UNCHANGED <<partVars, fetchVars, streamVars, mergeVars, harvestVars, discoverVars,
                schemaVars>>

(***************************************************************************)
(* Helpers.                                                                *)
(***************************************************************************)
Min(a, b) == IF a <= b THEN a ELSE b

\* strftime('%Y-%m-%dT%H:%M:%S'): a datetime in ticks to whole seconds,
\* dropping the sub-second part.
Iso(t) == t \div TicksPerSec

\* (end_dt - start_dt).total_seconds(), in ticks.
Dur(w) == w.e - w.s

RECURSIVE SumCnt(_, _)
SumCnt(a, b) == IF a > b THEN 0
                ELSE (IF a \in DOMAIN cnt THEN cnt[a] ELSE 0) + SumCnt(a + 1, b)

\* _total_results on filters_for(start_dt, end_dt): the catalogue's count of
\* records posted from second Iso(start) until second Iso(end), both included.
TotalResults(w) == SumCnt(Iso(w.s), Iso(w.e))

\* Line 162: the window is accepted as a leaf.
IsLeafBug(tot, w) ==
    tot < threshold \/ Dur(w) <= min_window_seconds * TicksPerSec
IsLeafLoose(tot, w) ==
    tot <= threshold + 1 \/ Dur(w) <= min_window_seconds * TicksPerSec
IsLeaf(tot, w) ==
    tot <= threshold \/ Dur(w) <= min_window_seconds * TicksPerSec

\* Lines 166-167: mid = datetime.fromtimestamp(int(start + (end - start) / 2.0)),
\* a whole second, in ticks.
Mid(w) == ((w.s + w.e) \div (2 * TicksPerSec)) * TicksPerSec

\* Line 170: right_start = mid + timedelta(seconds=1).
RightStartGap(mid) == mid + 2 * TicksPerSec
RightStartSame(mid) == mid
RightStart(mid) == mid + TicksPerSec

LeftWindow(w) == [s |-> w.s, e |-> Mid(w)]
RightWindow(w) == [s |-> RightStart(Mid(w)), e |-> w.e]

\* Lines 169-171: the two recursive calls in the order they are made, the left
\* half first: the generator yields every leaf of l before any leaf of r.
RecurseRightFirst(l, r) == <<r, l>>
Recurse(l, r) == <<l, r>>

(***************************************************************************)
(* The window partitioner as an explicit depth-first walk.  One step is    *)
(* one call of _iter_subwindows_adaptive up to its yield or its recursive  *)
(* calls.                                                                  *)
(***************************************************************************)
InitPartition ==
    /\ \E len \in 1..MaxLen, frac \in {0, TicksPerSec - 1} :
          /\ root = [s |-> 0, e |-> (len - 1) * TicksPerSec + frac]
          /\ cnt \in [0..(len - 1) -> 0..MaxCnt]
    /\ threshold \in 1..MaxThreshold
    /\ min_window_seconds \in 0..MaxMinWindow
    /\ stack = <<root>>
    /\ leaves = <<>>
    /\ probes = {}
    /\ splits = {}
    /\ ppc = "run"
    /\ FetchIdle
    /\ StreamIdle
    /\ MergeIdle
    /\ HarvestIdle
    /\ DiscoverIdle
    /\ SchemaIdle
    /\ RehydrateIdle

\* Lines 156-160: the probe returns 0, the call returns without yielding.
ProbeZero ==
    /\ ppc = "run" /\ stack # <<>>
    /\ LET w == Head(stack) IN
         /\ TotalResults(w) = 0
         /\ probes' = probes \cup {[w |-> w, total |-> 0, act |-> "none"]}
         /\ stack' = Tail(stack)
    /\ UNCHANGED <<cnt, threshold, min_window_seconds, root, leaves, splits, ppc>>
    /\ PartitionOnly

\* Lines 162-164: the window is yielded as a leaf.
YieldLeaf ==
    /\ ppc = "run" /\ stack # <<>>
    /\ LET w == Head(stack)
           tot == TotalResults(w) IN
         /\ tot # 0
         /\ IsLeaf(tot, w)
         /\ leaves' = Append(leaves, [from |-> Iso(w.s), until |-> Iso(w.e)])
         /\ probes' = probes \cup {[w |-> w, total |-> tot, act |-> "leaf"]}
         /\ stack' = Tail(stack)
    /\ UNCHANGED <<cnt, threshold, min_window_seconds, root, splits, ppc>>
    /\ PartitionOnly

\* Lines 166-171: bisect, recurse on the left half and then on the right half.
Bisect ==
    /\ ppc = "run" /\ stack # <<>>
    /\ LET w == Head(stack)
           tot == TotalResults(w) IN
         /\ tot # 0
         /\ ~IsLeaf(tot, w)
         /\ probes' = probes \cup {[w |-> w, total |-> tot, act |-> "split"]}
         /\ splits' = splits \cup {[w |-> w, l |-> LeftWindow(w), r |-> RightWindow(w)]}
         /\ stack' = Recurse(LeftWindow(w), RightWindow(w)) \o Tail(stack)
    /\ UNCHANGED <<cnt, threshold, min_window_seconds, root, leaves, ppc>>
    /\ PartitionOnly

\* Lines 138-144, 157: both probe attempts fail; _total_results raises and the
\* exception leaves the generator.
ProbeRaises ==
    /\ ppc = "run" /\ stack # <<>>
    /\ ppc' = "raised"
    /\ UNCHANGED <<cnt, threshold, min_window_seconds, root, stack, leaves, probes, splits>>
    /\ PartitionOnly

\* The outermost call returns: the generator is exhausted.
PartitionDone ==
    /\ ppc = "run" /\ stack = <<>>
    /\ ppc' = "done"
    /\ UNCHANGED <<cnt, threshold, min_window_seconds, root, stack, leaves, probes, splits>>
    /\ PartitionOnly

NextPartition ==
    \/ ProbeZero
    \/ YieldLeaf
    \/ Bisect
    \/ ProbeRaises
    \/ PartitionDone

SpecPartition == InitPartition /\ [][NextPartition]_vars

\* The generator is driven to exhaustion by the for loop of the orchestrator
\* (line 527): a pending call is always eventually run.
SpecPartitionFair == SpecPartition /\ WF_vars(NextPartition)

(***************************************************************************)
(* One page fetch with backoff: _fetch_page (lines 106-126).               *)
(* _fetch_work_by_doi (lines 312-334) has the same loop.                   *)
(***************************************************************************)
\* The statuses of line 114, slept on and retried.
RetryableStatuses == {429, 500, 502, 503, 504}
\* Statuses for which Response.raise_for_status() raises HTTPError (4xx, 5xx)
\* and which line 114 does not list.
ErrorStatuses == {400, 404, 501}
\* Statuses other than 200 for which raise_for_status() returns normally.
QuietStatuses == {204, 304}

RECURSIVE Pow2(_)
Pow2(n) == IF n = 0 THEN 1 ELSE 2 * Pow2(n - 1)

\* Lines 115 and 124: time.sleep(base_sleep * (2 ** attempt)), in base_sleep units.
Backoff(a) == Pow2(a)

InitFetch ==
    /\ max_retries \in 1..MaxRetries
    /\ attempt = 0
    /\ last_exc = "none"
    /\ slept = 0
    /\ fhist = <<>>
    /\ fpc = "loop"
    /\ PartitionIdle
    /\ StreamIdle
    /\ MergeIdle
    /\ HarvestIdle
    /\ DiscoverIdle
    /\ SchemaIdle
    /\ RehydrateIdle

\* Lines 111-113: status 200, the parsed body is returned.
AttemptOk ==
    /\ fpc = "loop" /\ attempt < max_retries
    /\ fhist' = Append(fhist, [resp |-> 200, exc |-> FALSE, sleep |-> FALSE])
    /\ fpc' = "returned_json"
    /\ UNCHANGED <<max_retries, attempt, last_exc, slept>>
    /\ FetchOnly

\* Lines 114-116: a retryable status: sleep, next attempt.
AttemptRetryable ==
    /\ fpc = "loop" /\ attempt < max_retries
    /\ \E st \in RetryableStatuses :
          fhist' = Append(fhist, [resp |-> st, exc |-> FALSE, sleep |-> TRUE])
    /\ slept' = slept + Backoff(attempt)
    /\ attempt' = attempt + 1
    /\ UNCHANGED <<max_retries, last_exc, fpc>>
    /\ FetchOnly

\* Lines 117-124: any other 4xx/5xx status: the payload is printed,
\* raise_for_status() raises HTTPError, a RequestException, which the handler
\* of line 122 catches: last_exc is set, the loop sleeps and goes on.
AttemptHttpError ==
    /\ fpc = "loop" /\ attempt < max_retries
    /\ \E st \in ErrorStatuses :
          fhist' = Append(fhist, [resp |-> st, exc |-> FALSE, sleep |-> TRUE])
    /\ last_exc' = "http"
    /\ slept' = slept + Backoff(attempt)
    /\ attempt' = attempt + 1
    /\ UNCHANGED <<max_retries, fpc>>
    /\ FetchOnly

\* Lines 117-121: a status below 400 other than 200: raise_for_status() does
\* nothing and the loop goes on to the next attempt without sleeping.
AttemptQuiet ==
    /\ fpc = "loop" /\ attempt < max_retries
    /\ \E st \in QuietStatuses :
          fhist' = Append(fhist, [resp |-> st, exc |-> FALSE, sleep |-> FALSE])
    /\ attempt' = attempt + 1
    /\ UNCHANGED <<max_retries, last_exc, slept, fpc>>
    /\ FetchOnly

\* Lines 111, 122-124: requests.get raises a RequestException (network): there
\* is no response (resp 0, exc TRUE).
AttemptNetworkError ==
    /\ fpc = "loop" /\ attempt < max_retries
    /\ fhist' = Append(fhist, [resp |-> 0, exc |-> TRUE, sleep |-> TRUE])
    /\ last_exc' = "network"
    /\ slept' = slept + Backoff(attempt)
    /\ attempt' = attempt + 1
    /\ UNCHANGED <<max_retries, fpc>>
    /\ FetchOnly

\* Lines 125-126: the loop is over and an exception was caught: raise it.
ExhaustedRaise ==
    /\ fpc = "loop" /\ attempt = max_retries
    /\ last_exc # "none"
    /\ fpc' = "raised"
    /\ UNCHANGED <<max_retries, attempt, last_exc, slept, fhist>>
    /\ FetchOnly

\* Lines 125-126: the loop is over and last_exc is None: the function falls
\* off its end and returns None.
ExhaustedReturnNone ==
    /\ fpc = "loop" /\ attempt = max_retries
    /\ last_exc = "none"
    /\ fpc' = "returned_none"
    /\ UNCHANGED <<max_retries, attempt, last_exc, slept, fhist>>
    /\ FetchOnly

NextFetch ==
    \/ AttemptOk
    \/ AttemptRetryable
    \/ AttemptHttpError
    \/ AttemptQuiet
    \/ AttemptNetworkError
    \/ ExhaustedRaise
    \/ ExhaustedReturnNone

SpecFetch == InitFetch /\ [][NextFetch]_vars

(***************************************************************************)
(* Claims about the page fetch.                                            *)
(***************************************************************************)
\* Attempt i met a transient condition.
Transient(h) == h.exc \/ h.resp \in RetryableStatuses

\* C5: when every attempt of a fetch met a transient condition (a retryable
\* status or a network exception), the fetch made at most max_retries attempts
\* and ended by raising; and a fetch returns a value only after a 200.
C5_ExhaustionRaises ==
    fpc \in {"returned_json", "returned_none", "raised"} =>
        /\ (\A i \in 1..Len(fhist) : Transient(fhist[i]))
              => (fpc = "raised" /\ Len(fhist) <= max_retries)
        /\ fpc \in {"returned_json", "returned_none"}
              => (fhist # <<>> /\ fhist[Len(fhist)].resp = 200)

\* C6: an attempt answered with a status that is neither 2xx nor retryable is
\* the last one: the fetch has failed there, no sleep followed it and no
\* further request was made.
C6_FatalImmediately ==
    \A i \in 1..Len(fhist) :
        (~fhist[i].exc /\ fhist[i].resp \in ErrorStatuses) =>
            /\ i = Len(fhist)
            /\ ~fhist[i].sleep
            /\ fpc = "raised"

(***************************************************************************)
(* The paginated stream: _stream_with_filters (lines 181-232) and          *)
(* _stream_doi_only (lines 262-307).  One step is one iteration of the     *)
(* while loop: a page fetch and the handling of the page.  The API is free *)
(* to answer any total, any page size and any next-cursor.                 *)
(***************************************************************************)
\* The start cursor "*" (lines 181, 262); the API may return it like any other.
StarCursor == 1
\* A falsy next-cursor: the field is absent, None or "".
NoCursor == 0
Cursors == 1..MaxCursors

\* yielded is only ever compared with total (<= MaxTotal); with total > 0 the
\* loop ends before yielded reaches MaxTotal + MaxPage, and with total = 0
\* yielded is never read, so larger counts are kept at this value.
YieldCap == MaxTotal + MaxPage
Count(y) == Min(y, YieldCap)

\* Lines 209 and 286: an empty page's next-cursor is followed.
FollowEmptyBug(nc, lc) == nc # NoCursor
FollowEmpty(nc, lc) == nc # NoCursor /\ nc \notin lc

\* Lines 220 and 297: the running count has reached the advertised total.
TotalReachedBug(t, y) == t > 0 /\ y > t
TotalReached(t, y) == t > 0 /\ y >= t

\* Lines 215-218 and 291-296: the items of a page that are yielded: all n of
\* them (full records), or the k of them that carry a DOI (DOI-only listing).
PageYield(n, k) == IF selector = "full" THEN n ELSE k

\* Lines 200-201 and 279-280: total is read from the first page only
\* (msg.get("total-results") or 0).
FirstTotals == IF total_known THEN {total} ELSE 0..MaxTotal

\* Lines 198 and 277: one more request is sent with params["cursor"] = c.
\* Counts above 3 are kept at 3.
Submit(sub, c) == [sub EXCEPT ![c] = IF @ < 3 THEN @ + 1 ELSE @]

InitStream ==
    /\ selector \in {"full", "doi"}
    /\ total_known = FALSE
    /\ total = 0
    /\ yielded = 0
    /\ last_cursors = {}
    /\ cursor = StarCursor
    /\ spc = "fetch"
    /\ reason = "none"
    /\ last_yield = 0
    /\ empty_cursors = {}
    /\ empty_repeat = FALSE
    /\ submits = [c \in Cursors |-> 0]
    /\ PartitionIdle
    /\ FetchIdle
    /\ MergeIdle
    /\ HarvestIdle
    /\ DiscoverIdle
    /\ SchemaIdle
    /\ RehydrateIdle

\* Lines 198-199: _fetch_page raises, or returns None and data.get raises.
StreamFetchFails ==
    /\ spc = "fetch"
    /\ spc' = "raised"
    /\ reason' = "error"
    /\ UNCHANGED <<selector, total_known, total, yielded, last_cursors, cursor,
                   last_yield, empty_cursors, empty_repeat>>
    /\ submits' = Submit(submits, cursor)
    /\ StreamOnly

\* Lines 207-212: an empty page with a next-cursor not seen before: follow it.
EmptyFollow ==
    /\ spc = "fetch"
    /\ \E t \in FirstTotals, nc \in Cursors \cup {NoCursor} :
          /\ FollowEmpty(nc, last_cursors)
          /\ total' = t
          /\ cursor' = nc
          /\ last_cursors' = last_cursors \cup {nc}
          /\ empty_repeat' = (nc \in empty_cursors)
          /\ empty_cursors' = empty_cursors \cup {nc}
    /\ total_known' = TRUE
    /\ last_yield' = 0
    /\ UNCHANGED <<selector, yielded, spc, reason>>
    /\ submits' = Submit(submits, cursor)
    /\ StreamOnly

\* Lines 207-213: an empty page with no next-cursor or a seen one: break.
EmptyStop ==
    /\ spc = "fetch"
    /\ \E t \in FirstTotals, nc \in Cursors \cup {NoCursor} :
          /\ ~FollowEmpty(nc, last_cursors)
          /\ total' = t
          /\ empty_repeat' = (nc \in empty_cursors)
          /\ empty_cursors' = empty_cursors \cup ({nc} \ {NoCursor})
    /\ total_known' = TRUE
    /\ last_yield' = 0
    /\ spc' = "done"
    /\ reason' = "empty"
    /\ UNCHANGED <<selector, yielded, last_cursors, cursor>>
    /\ submits' = Submit(submits, cursor)
    /\ StreamOnly

\* Lines 215-221: the page's items are yielded and the count reaches total.
PageTotalReached ==
    /\ spc = "fetch"
    /\ \E t \in FirstTotals, n \in 1..MaxPage, k \in 0..MaxPage :
          /\ k <= n
          /\ TotalReached(t, yielded + PageYield(n, k))
          /\ total' = t
          /\ yielded' = Count(yielded + PageYield(n, k))
          /\ last_yield' = PageYield(n, k)
    /\ total_known' = TRUE
    /\ empty_repeat' = FALSE
    /\ spc' = "done"
    /\ reason' = "total"
    /\ UNCHANGED <<selector, last_cursors, cursor, empty_cursors>>
    /\ submits' = Submit(submits, cursor)
    /\ StreamOnly

\* Lines 215-225: the items are yielded and the page has no next-cursor.
PageNoCursor ==
    /\ spc = "fetch"
    /\ \E t \in FirstTotals, n \in 1..MaxPage, k \in 0..MaxPage :
          /\ k <= n
          /\ ~TotalReached(t, yielded + PageYield(n, k))
          /\ total' = t
          /\ yielded' = Count(yielded + PageYield(n, k))
          /\ last_yield' = PageYield(n, k)
    /\ total_known' = TRUE
    /\ empty_repeat' = FALSE
    /\ spc' = "done"
    /\ reason' = "nocursor"
    /\ UNCHANGED <<selector, last_cursors, cursor, empty_cursors>>
    /\ submits' = Submit(submits, cursor)
    /\ StreamOnly

\* Lines 215-228: the items are yielded and the next-cursor was seen before:
\* it is submitted again.
PageRepeatCursor ==
    /\ spc = "fetch"
    /\ \E t \in FirstTotals, n \in 1..MaxPage, k \in 0..MaxPage, nc \in Cursors :
          /\ k <= n
          /\ ~TotalReached(t, yielded + PageYield(n, k))
          /\ nc \in last_cursors
          /\ total' = t
          /\ yielded' = Count(yielded + PageYield(n, k))
          /\ last_yield' = PageYield(n, k)
          /\ cursor' = nc
    /\ total_known' = TRUE
    /\ empty_repeat' = FALSE
    /\ UNCHANGED <<selector, last_cursors, spc, reason, empty_cursors>>
    /\ submits' = Submit(submits, cursor)
    /\ StreamOnly

\* Lines 215-230: the items are yielded and the next-cursor is new.
PageNewCursor ==
    /\ spc = "fetch"
    /\ \E t \in FirstTotals, n \in 1..MaxPage, k \in 0..MaxPage, nc \in Cursors :
          /\ k <= n
          /\ ~TotalReached(t, yielded + PageYield(n, k))
          /\ nc \notin last_cursors
          /\ total' = t
          /\ yielded' = Count(yielded + PageYield(n, k))
          /\ last_yield' = PageYield(n, k)
          /\ cursor' = nc
          /\ last_cursors' = last_cursors \cup {nc}
    /\ total_known' = TRUE
    /\ empty_repeat' = FALSE
    /\ UNCHANGED <<selector, spc, reason, empty_cursors>>
    /\ submits' = Submit(submits, cursor)
    /\ StreamOnly

NextStream ==
    \/ StreamFetchFails
    \/ EmptyFollow
    \/ EmptyStop
    \/ PageTotalReached
    \/ PageNoCursor
    \/ PageRepeatCursor
    \/ PageNewCursor

SpecStream == InitStream /\ [][NextStream]_vars

\* The consumer (the for loops of lines 550 and 581) pulls the generator until
\* it is exhausted and every request is answered or fails: an enabled
\* iteration is eventually run.
SpecStreamFair == SpecStream /\ WF_vars(NextStream)

(***************************************************************************)
(* Claims about the paginated stream.                                      *)
(***************************************************************************)
\* C2 as stated: a stream whose first page advertised total N > 0 never yields
\* more than N items, yields exactly N when it stops on the total, and stops
\* short of N only when the API stopped supplying (an empty page, or a page
\* without next-cursor).
C2_ExactCount ==
    (total_known /\ total > 0) =>
        /\ yielded <= total
        /\ (spc = "done" /\ reason = "total") => yielded = total
        /\ (spc = "done" /\ yielded < total) => reason \in {"empty", "nocursor"}

\* C2 amended: with total N > 0 the stream goes on only while fewer than N
\* items were yielded, and stops on the total right after the first page that
\* brings the count to N or more: the count before that page was below N, so
\* exactly N items are yielded when the page sizes add up to N and fewer than
\* N + (page size) otherwise; it stops short of N only on an empty page or a
\* page without next-cursor (or when a fetch fails).
C2_StopsAtTotal ==
    (total_known /\ total > 0) =>
        /\ spc = "fetch" => yielded < total
        /\ yielded - last_yield < total
        /\ spc = "done" => (reason = "total" <=> yielded >= total)
        /\ (spc = "done" /\ yielded < total) => reason \in {"empty", "nocursor"}
        /\ (spc = "raised") => yielded < total

\* C2 witness: a stream that ended on its total after more than one page, with
\* exactly total items yielded.
C2_Witness ==
    /\ spc = "done" /\ reason = "total" /\ total_known /\ total > 0
    /\ yielded = total
    /\ last_yield < yielded
    /\ selector = "full"

\* C7: when an empty page comes with a next-cursor that an earlier empty page
\* already came with, the stream is over (no further request is made), in the
\* full-record and in the DOI-only variant.
C7_CursorRepeatGuard == empty_repeat => spc = "done"

\* C7 witness: an empty page repeated the next-cursor of an earlier empty page.
C7_Witness == empty_repeat /\ spc = "done" /\ reason = "empty" /\ selector = "doi"

\* C8: the stream eventually reaches its end (done, or a fetch error), however
\* the API answers.
C8_StreamEnds == <>(spc \in {"done", "raised"})

\* C29: no cursor value is requested three or more times in one stream: a
\* value that was already submitted is submitted at most once more.
C29_BoundedResubmission == \A c \in DOMAIN submits : submits[c] <= 2

(***************************************************************************)
(* The shard merger: merge_parquets_and_report (merge_parquets.py, lines   *)
(* 172-327).  A row is the part of a FlatRow that identifies and orders    *)
(* it: its doi and its four date columns.  Shards hold fewer rows than     *)
(* CSV_WRITE_CHUNK_ROWS, so the text mirror takes the branch of lines      *)
(* 234-236.                                                                *)
(***************************************************************************)
\* A null date (_date_from_parts returned None).
NullDate == 0
DoiPool == {"X", "Y"}
DatePool == {NullDate, 1, 2}
RowPool == {[doi |-> d, posted_date |-> p, deposited_date |-> 1,
             indexed_date |-> 1, created_date |-> 1] : d \in DoiPool, p \in DatePool}
\* What one shard file may hold: no row, one row, or two rows of different
\* dois (the duplicates of interest arise across shards, from overlapping
\* harvest windows).
ShardContents ==
    {<<>>} \cup {<<r>> : r \in RowPool}
           \cup {<<r1, r2>> : r1 \in {r \in RowPool : r.doi = "X"},
                              r2 \in {r \in RowPool : r.doi = "Y"}}

\* Line 99: num_rows stays None: the row count of the file was not read.
UnknownRows == -1
\* Line 120: the per-window cap whose exact count marks a shard as possibly
\* truncated.
TruncationCap == 2000

\* Line 120: (num_rows == 2000) if isinstance(num_rows, int) else None.
SuspectedIncomplete(num_rows) ==
    IF num_rows = UnknownRows THEN "None"
    ELSE IF num_rows = TruncationCap THEN "True" ELSE "False"

\* Lines 113-121: the rows and suspected_incomplete entries of one record.
DiscoveredRecord(num_rows) ==
    [rows |-> num_rows, suspected_incomplete |-> SuspectedIncomplete(num_rows)]

\* Line 284: the sum of the row counts that are not null.
RECURSIVE SumRows(_)
SumRows(df) ==
    IF df = <<>> THEN 0
    ELSE (IF Head(df).rows = UnknownRows THEN 0 ELSE Head(df).rows) + SumRows(Tail(df))

\* Line 285: the records whose flag, None counted as False, is set.
Suspects(df) == {i \in 1..Len(df) : df[i].suspected_incomplete = "True"}

\* Lines 207-210 after discovery (lines 186-189): the shards found, in the
\* order of report_df.
InitMerge ==
    /\ \E n \in 0..MaxShards :
          /\ shards \in [1..n -> ShardContents]
          /\ \E K \in SUBSET (1..n) :
                report_df = [i \in 1..n |->
                    DiscoveredRecord(IF i \in K THEN Len(shards[i]) ELSE UnknownRows)]
    /\ report = NoReport
    /\ schema_read = {}
    /\ idx = 1
    /\ writer = "none"
    /\ parquet_ok = TRUE
    /\ tmp_exists = FALSE
    /\ tmp_rows = <<>>
    /\ out_parquet = <<>>
    /\ final_exists = FALSE
    /\ out_csv = <<>>
    /\ first_csv = TRUE
    /\ total_rows_written = 0
    /\ merged = {}
    /\ ret_parquet = "unset"
    /\ mpc = "discover"
    /\ PartitionIdle
    /\ FetchIdle
    /\ StreamIdle
    /\ HarvestIdle
    /\ DiscoverIdle
    /\ SchemaIdle
    /\ RehydrateIdle

\* Lines 187-188: nothing was discovered: RuntimeError.
MergeNoShards ==
    /\ mpc = "discover" /\ shards = <<>>
    /\ mpc' = "raised"
    /\ UNCHANGED <<report_df, report, shards, schema_read, idx, writer, parquet_ok, tmp_exists, tmp_rows,
                   out_parquet, final_exists, out_csv, first_csv, total_rows_written,
                   merged, ret_parquet>>
    /\ MergeOnly

\* Lines 189-195: the schemas of the readable shards are unified; a shard
\* whose schema cannot be read is warned about and left out of the schema.
UnifySchema ==
    /\ mpc = "discover" /\ shards # <<>>
    /\ \E S \in SUBSET (1..Len(shards)) :
          /\ S # {}
          /\ schema_read' = S
    /\ mpc' = "open"
    /\ UNCHANGED <<report_df, report, shards, idx, writer, parquet_ok, tmp_exists, tmp_rows,
                   out_parquet, final_exists, out_csv, first_csv, total_rows_written,
                   merged, ret_parquet>>
    /\ MergeOnly

\* Lines 193-195: no schema could be read: RuntimeError.
UnifySchemaEmpty ==
    /\ mpc = "discover" /\ shards # <<>>
    /\ schema_read' = {}
    /\ mpc' = "raised"
    /\ UNCHANGED <<report_df, report, shards, idx, writer, parquet_ok, tmp_exists, tmp_rows,
                   out_parquet, final_exists, out_csv, first_csv, total_rows_written,
                   merged, ret_parquet>>
    /\ MergeOnly

\* Lines 217-218: the ParquetWriter is opened on the temporary path.
OpenWriter ==
    /\ mpc = "open"
    /\ writer' = "open"
    /\ tmp_exists' = TRUE
    /\ mpc' = "loop"
    /\ UNCHANGED <<report_df, report, shards, schema_read, idx, parquet_ok, tmp_rows,
                   out_parquet, final_exists, out_csv, first_csv, total_rows_written,
                   merged, ret_parquet>>
    /\ MergeOnly

\* Lines 219-221: the ParquetWriter cannot be opened: Parquet output is
\* skipped; the failed open may or may not have created the temporary file.
OpenWriterFails ==
    /\ mpc = "open"
    /\ parquet_ok' = FALSE
    /\ tmp_exists' \in BOOLEAN
    /\ mpc' = "loop"
    /\ UNCHANGED <<report_df, report, shards, schema_read, idx, writer, tmp_rows,
                   out_parquet, final_exists, out_csv, first_csv, total_rows_written,
                   merged, ret_parquet>>
    /\ MergeOnly

\* Lines 224-226, 245-246: read_table or the alignment raises: the shard is
\* skipped with a warning.
ShardUnreadable ==
    /\ mpc = "loop" /\ idx <= Len(shards)
    /\ idx' = idx + 1
    /\ UNCHANGED <<report_df, report, shards, schema_read, writer, parquet_ok, tmp_exists, tmp_rows,
                   out_parquet, final_exists, out_csv, first_csv, total_rows_written,
                   merged, ret_parquet, mpc>>
    /\ MergeOnly

\* Lines 229-230, 245-246: writer.write_table raises: the shard is skipped
\* before it is counted or mirrored.
ShardParquetWriteFails ==
    /\ mpc = "loop" /\ idx <= Len(shards)
    /\ parquet_ok /\ writer = "open"
    /\ idx' = idx + 1
    /\ UNCHANGED <<report_df, report, shards, schema_read, writer, parquet_ok, tmp_exists, tmp_rows,
                   out_parquet, final_exists, out_csv, first_csv, total_rows_written,
                   merged, ret_parquet, mpc>>
    /\ MergeOnly

\* The rows handed to the ParquetWriter for one shard (lines 229-230).
ParquetAppend(rows) ==
    IF parquet_ok /\ writer = "open" THEN tmp_rows \o rows ELSE tmp_rows

\* Lines 225-236, 245-246: the shard is written to Parquet and counted, then
\* the CSV write raises.
ShardCsvFails ==
    /\ mpc = "loop" /\ idx <= Len(shards)
    /\ tmp_rows' = ParquetAppend(shards[idx])
    /\ total_rows_written' = total_rows_written + Len(shards[idx])
    /\ merged' = merged \cup {idx}
    /\ idx' = idx + 1
    /\ UNCHANGED <<report_df, report, shards, schema_read, writer, parquet_ok, tmp_exists,
                   out_parquet, final_exists, out_csv, first_csv,
                   ret_parquet, mpc>>
    /\ MergeOnly

\* Lines 225-236: the shard is read, aligned, written to Parquet, counted and
\* appended to the CSV.
ShardMerged ==
    /\ mpc = "loop" /\ idx <= Len(shards)
    /\ tmp_rows' = ParquetAppend(shards[idx])
    /\ total_rows_written' = total_rows_written + Len(shards[idx])
    /\ out_csv' = out_csv \o shards[idx]
    /\ first_csv' = FALSE
    /\ merged' = merged \cup {idx}
    /\ idx' = idx + 1
    /\ UNCHANGED <<report_df, report, shards, schema_read, writer, parquet_ok, tmp_exists,
                   out_parquet, final_exists, ret_parquet, mpc>>
    /\ MergeOnly

\* Lines 248-250: the loop is over; the writer, if any, is closed.
CloseWriter ==
    /\ mpc = "loop" /\ idx > Len(shards)
    /\ writer' = IF writer = "open" THEN "closed" ELSE writer
    /\ mpc' = "finalize"
    /\ UNCHANGED <<report_df, report, shards, schema_read, idx, parquet_ok, tmp_exists, tmp_rows,
                   out_parquet, final_exists, out_csv, first_csv, total_rows_written,
                   merged, ret_parquet>>
    /\ MergeOnly

\* Lines 248-250: writer.close() raises in the finally clause: the exception
\* leaves merge_parquets_and_report and the temporary file stays.
CloseWriterRaises ==
    /\ mpc = "loop" /\ idx > Len(shards)
    /\ writer = "open"
    /\ mpc' = "raised"
    /\ UNCHANGED <<report_df, report, shards, schema_read, idx, writer, parquet_ok, tmp_exists, tmp_rows,
                   out_parquet, final_exists, out_csv, first_csv, total_rows_written,
                   merged, ret_parquet>>
    /\ MergeOnly

\* Lines 253-255: os.replace moves the temporary file into place.
FinalizeOk ==
    /\ mpc = "finalize"
    /\ parquet_ok /\ tmp_exists
    /\ out_parquet' = tmp_rows
    /\ final_exists' = TRUE
    /\ tmp_exists' = FALSE
    /\ mpc' = "report"
    /\ UNCHANGED <<report_df, report, shards, schema_read, idx, writer, parquet_ok, tmp_rows,
                   out_csv, first_csv, total_rows_written, merged, ret_parquet>>
    /\ MergeOnly

\* Lines 256-262: os.replace raises: Parquet is marked skipped and the
\* temporary file is removed, unless os.remove raises too (ignored).
FinalizeFails ==
    /\ mpc = "finalize"
    /\ parquet_ok /\ tmp_exists
    /\ parquet_ok' = FALSE
    /\ tmp_exists' \in BOOLEAN
    /\ mpc' = "report"
    /\ UNCHANGED <<report_df, report, shards, schema_read, idx, writer, tmp_rows,
                   out_parquet, final_exists, out_csv, first_csv, total_rows_written,
                   merged, ret_parquet>>
    /\ MergeOnly

\* Line 253: nothing to finalize.
FinalizeSkipped ==
    /\ mpc = "finalize"
    /\ ~(parquet_ok /\ tmp_exists)
    /\ mpc' = "report"
    /\ UNCHANGED <<report_df, report, shards, schema_read, idx, writer, parquet_ok, tmp_exists, tmp_rows,
                   out_parquet, final_exists, out_csv, first_csv, total_rows_written,
                   merged, ret_parquet>>
    /\ MergeOnly

\* Lines 264-327: the report is written and the paths are returned.
Report ==
    /\ mpc = "report"
    /\ ret_parquet' = IF parquet_ok THEN "path" ELSE "None"
    /\ report' = [n_files |-> Len(report_df),
                  total_rows |-> SumRows(report_df),
                  total_rows_written |-> total_rows_written,
                  n_suspect |-> Cardinality(Suspects(report_df))]
    /\ mpc' = "done"
    /\ UNCHANGED <<report_df, shards, schema_read, idx, writer, parquet_ok, tmp_exists, tmp_rows,
                   out_parquet, final_exists, out_csv, first_csv, total_rows_written,
                   merged>>
    /\ MergeOnly

NextMerge ==
    \/ MergeNoShards
    \/ UnifySchema
    \/ UnifySchemaEmpty
    \/ OpenWriter
    \/ OpenWriterFails
    \/ ShardUnreadable
    \/ ShardParquetWriteFails
    \/ ShardCsvFails
    \/ ShardMerged
    \/ CloseWriter
    \/ CloseWriterRaises
    \/ FinalizeOk
    \/ FinalizeFails
    \/ FinalizeSkipped
    \/ Report

SpecMerge == InitMerge /\ [][NextMerge]_vars

(***************************************************************************)
(* Claims about the merged outputs.                                        *)
(***************************************************************************)
\* No two rows of a row sequence carry the same doi.
UniqueDoi(rows) ==
    \A i, j \in 1..Len(rows) : rows[i].doi = rows[j].doi => i = j

\* Ascending order of two dates, nulls last.
DateBefore(a, b) == a # NullDate /\ (b = NullDate \/ a < b)

\* Row a sorts strictly before row b: ascending by posted, then deposited,
\* then indexed, then created date, nulls last.
RowBefore(a, b) ==
    \/ DateBefore(a.posted_date, b.posted_date)
    \/ /\ a.posted_date = b.posted_date
       /\ \/ DateBefore(a.deposited_date, b.deposited_date)
          \/ /\ a.deposited_date = b.deposited_date
             /\ \/ DateBefore(a.indexed_date, b.indexed_date)
                \/ /\ a.indexed_date = b.indexed_date
                   /\ DateBefore(a.created_date, b.created_date)

\* C3: when the merge has completed, neither the columnar output nor the text
\* mirror holds two rows with the same doi.
C3_MergedUnique ==
    mpc = "done" =>
        /\ final_exists => UniqueDoi(out_parquet)
        /\ UniqueDoi(out_csv)

\* C4: when the merge has completed, every row of the merged outputs is the
\* earliest row of its doi: no row of a merged shard with the same doi sorts
\* before it (posted, then deposited, indexed, created date, nulls last).
C4_EarliestWins ==
    mpc = "done" =>
        \A i \in 1..Len(out_csv) :
            \A s \in merged : \A k \in 1..Len(shards[s]) :
                shards[s][k].doi = out_csv[i].doi
                    => ~RowBefore(shards[s][k], out_csv[i])

(***************************************************************************)
(* Claims about the window partitioner.                                    *)
(***************************************************************************)
RootSeconds == Iso(root.s)..Iso(root.e)

\* The leaves (their indices) that hold second t.
LeavesAt(t) == {i \in 1..Len(leaves) : leaves[i].from <= t /\ t <= leaves[i].until}

\* C1 as stated: once the partitioner has finished, every second of the input
\* window lies in exactly one yielded leaf, and no leaf reaches outside it.
C1_CoverageExact ==
    ppc = "done" =>
        /\ \A t \in RootSeconds : Cardinality(LeavesAt(t)) = 1
        /\ \A i \in 1..Len(leaves) :
              leaves[i].from \in RootSeconds /\ leaves[i].until \in RootSeconds

\* C1 amended: once the partitioner has finished, the leaves are pairwise
\* disjoint and lie inside the input window, every second that holds a record
\* lies in exactly one leaf, and a second that no leaf holds lies in a probed
\* window whose count was 0 (such a window yields nothing).
C1_CoverageUpToEmpty ==
    ppc = "done" =>
        /\ \A t \in RootSeconds : Cardinality(LeavesAt(t)) <= 1
        /\ \A i \in 1..Len(leaves) :
              /\ leaves[i].from \in RootSeconds
              /\ leaves[i].until \in RootSeconds
              /\ leaves[i].from <= leaves[i].until
        /\ \A t \in RootSeconds : cnt[t] > 0 => Cardinality(LeavesAt(t)) = 1
        /\ \A t \in RootSeconds :
              LeavesAt(t) = {} =>
                 \E p \in probes : /\ p.act = "none" /\ p.total = 0
                                   /\ Iso(p.w.s) <= t /\ t <= Iso(p.w.e)

\* C1 witness: a finished run with at least two leaves and a second left out
\* because its sub-window was empty.
C1_Witness ==
    /\ ppc = "done"
    /\ Len(leaves) >= 2
    /\ \E t \in RootSeconds : LeavesAt(t) = {}
    /\ splits # {}

LeafProbes == {p \in probes : p.act = "leaf"}

\* C10: a probed window was yielded as a leaf exactly when its count was not 0
\* and (count <= threshold or duration <= min_window_seconds); a window with
\* count 0 yielded nothing and was not bisected; every other window was
\* bisected and not yielded.
C10_LeafCharacterisation ==
    /\ \A p \in probes :
          /\ p.total = TotalResults(p.w)
          /\ p.act = "leaf" <=>
                (p.total # 0 /\ (p.total <= threshold
                                 \/ Dur(p.w) <= min_window_seconds * TicksPerSec))
          /\ p.act = "none" <=> p.total = 0
          /\ p.act = "split" <=> (\E sp \in splits : sp.w = p.w)
          /\ p.act \in {"none", "leaf", "split"}
    /\ Len(leaves) = Cardinality(LeafProbes)
    /\ {leaves[i] : i \in 1..Len(leaves)}
          = {[from |-> Iso(p.w.s), until |-> Iso(p.w.e)] : p \in LeafProbes}

\* C10 witness: a finished run in which one window was skipped, one yielded
\* with a count above the threshold (its duration decided) and one bisected.
C10_Witness ==
    /\ ppc = "done"
    /\ \E p \in probes : p.act = "none"
    /\ \E p \in probes : p.act = "leaf" /\ p.total > threshold
    /\ \E p \in probes : p.act = "split"

\* Records the catalogue holds in leaf i.
LeafCount(i) == SumCnt(leaves[i].from, leaves[i].until)

RECURSIVE SumLeafCounts(_)
SumLeafCounts(n) == IF n = 0 THEN 0 ELSE LeafCount(n) + SumLeafCounts(n - 1)

\* The scenario's proportions: the probed total of the input window is 2.5
\* times the threshold (5000 records, threshold 2000).
WeekScenario == 2 * TotalResults(root) = 5 * threshold

\* C11 as stated: in the week scenario, however the records are spread over
\* the window, a finished partitioning has at least 3 leaves, each leaf's count
\* is at most the threshold, and every second of the window lies in a leaf.
C11_WeekAnyDistribution ==
    (ppc = "done" /\ WeekScenario) =>
        /\ Len(leaves) >= 3
        /\ \A i \in 1..Len(leaves) : LeafCount(i) <= threshold
        /\ \A t \in RootSeconds : LeavesAt(t) # {}

\* C11 amended: in the week scenario a finished partitioning has leaves whose
\* counts add up to the probed total; each leaf holds at most threshold
\* records or is a window of duration <= min_window_seconds; when no leaf is
\* above the threshold there are at least 3 leaves; and the leaves cover every
\* second that holds a record.
C11_WeekScenario ==
    (ppc = "done" /\ WeekScenario) =>
        /\ SumLeafCounts(Len(leaves)) = TotalResults(root)
        /\ \A p \in LeafProbes :
              p.total <= threshold \/ Dur(p.w) <= min_window_seconds * TicksPerSec
        /\ (\A i \in 1..Len(leaves) : LeafCount(i) <= threshold)
              => Len(leaves) >= 3
        /\ \A t \in RootSeconds : cnt[t] > 0 => LeavesAt(t) # {}

\* C11 witness: a finished week scenario with exactly 3 leaves, all within
\* the threshold, that cover the whole window.
C11_Witness ==
    /\ ppc = "done" /\ WeekScenario
    /\ Len(leaves) = 3
    /\ \A i \in 1..Len(leaves) : LeafCount(i) <= threshold
    /\ \A t \in RootSeconds : LeavesAt(t) # {}

\* C12: the leaves are yielded in chronological order without overlap: each
\* leaf starts strictly after the end of the leaf yielded before it.
C12_LeftBeforeRight ==
    \A i \in 1..(Len(leaves) - 1) : leaves[i].until < leaves[i + 1].from

\* C12 witness: a finished run that yielded at least 3 leaves out of at least
\* 2 bisections.
C12_Witness == ppc = "done" /\ Len(leaves) >= 3 /\ Cardinality(splits) >= 2

\* C27: a failed count probe (both attempts of _total_results failed) never
\* ends the partitioner by an exception: the count is treated as unknown and
\* the remaining windows are still visited.
C27_ProbeFailureNotFatal == ppc # "raised"

\* C30: every window the partitioner has probed, bisected into, or still has
\* to visit has start <= end.
C30_WindowsWellFormed ==
    /\ \A p \in probes : p.w.s <= p.w.e
    /\ \A sp \in splits : sp.l.s <= sp.l.e /\ sp.r.s <= sp.r.e
    /\ \A i \in 1..Len(stack) : stack[i].s <= stack[i].e
    /\ \A i \in 1..Len(leaves) : leaves[i].from <= leaves[i].until

(***************************************************************************)
(* File names.  A name is a sequence of one-character strings.  A date is  *)
(* a day ordinal: ordinal 0 is 2024-01-31, so that the range crosses a     *)
(* month boundary.                                                         *)
(***************************************************************************)
DigitChars == <<"0", "1", "2", "3", "4", "5", "6", "7", "8", "9">>
Digit(k) == DigitChars[k + 1]
Pad2(k) == <<Digit((k \div 10) % 10), Digit(k % 10)>>
Pad4(k) == Pad2(k \div 100) \o Pad2(k % 100)

\* The calendar fields of a day ordinal (date.year, date.month, date.day).
YearOf(n) == 2024
MonthOf(n) == IF n + 31 <= 31 THEN 1 ELSE 2
DayOf(n) == IF n + 31 <= 31 THEN n + 31 ELSE n + 31 - 31

\* strftime('%Y%m%d') of line 600.
Strftime_Ymd(n) == Pad4(YearOf(n)) \o Pad2(MonthOf(n)) \o Pad2(DayOf(n))

\* date.isoformat(): YYYY-MM-DD.
IsoFormat(n) ==
    Pad4(YearOf(n)) \o <<"-">> \o Pad2(MonthOf(n)) \o <<"-">> \o Pad2(DayOf(n))

\* Lines 598-601: os.path.join(incremental_save_dir,
\* f"crossref_preprints_{cur:%Y%m%d}_{w_end:%Y%m%d}.parquet").
BatchFilename(dir, c, w) ==
    dir \o <<"/">>
        \o <<"c", "r", "o", "s", "s", "r", "e", "f", "_",
             "p", "r", "e", "p", "r", "i", "n", "t", "s", "_">>
        \o Strftime_Ymd(c) \o <<"_">> \o Strftime_Ymd(w)
        \o <<".", "p", "a", "r", "q", "u", "e", "t">>

\* os.path.basename: what follows the last separator.
Basename(name) ==
    LET seps == {i \in 1..Len(name) : name[i] = "/"} IN
    IF seps = {} THEN name
    ELSE SubSeq(name, (CHOOSE i \in seps : \A j \in seps : j <= i) + 1, Len(name))

\* os.path.dirname: what precedes the last separator.
Dirname(name) ==
    LET seps == {i \in 1..Len(name) : name[i] = "/"} IN
    IF seps = {} THEN <<>>
    ELSE SubSeq(name, 1, (CHOOSE i \in seps : \A j \in seps : j <= i) - 1)

\* (None, None).
NoRange == <<<<>>, <<>>>>

IsDigit(c) == c \in {DigitChars[k] : k \in 1..10}

\* \d{4}-\d{2}-\d{2} matches at position i of s.
DateAt(s, i) ==
    /\ i >= 1 /\ i + 9 <= Len(s)
    /\ \A k \in {0, 1, 2, 3, 5, 6, 8, 9} : IsDigit(s[i + k])
    /\ s[i + 4] = "-" /\ s[i + 7] = "-"

\* The word w stands at position i of s.
WordAt(s, i, w) ==
    /\ i >= 1 /\ i + Len(w) - 1 <= Len(s)
    /\ \A k \in 1..Len(w) : s[i + k - 1] = w[k]

\* [_\-]? consumes n characters (0 or 1) at position i of s.
SepAt(s, i, n) == n = 0 \/ (n = 1 /\ i >= 1 /\ i <= Len(s) /\ s[i] \in {"_", "-"})

\* The match the regex engine returns among the candidates ms (tuples of the
\* position followed by the lengths of the variable parts): the leftmost one,
\* and there the longest choice for each greedy quantifier in turn.
RECURSIVE TupleBefore(_, _, _)
TupleBefore(a, b, k) ==
    IF k > Len(a) THEN FALSE
    ELSE IF a[k] # b[k] THEN (IF k = 1 THEN a[k] < b[k] ELSE a[k] > b[k])
    ELSE TupleBefore(a, b, k + 1)
FirstMatch(ms) == CHOOSE m \in ms : \A o \in ms : o = m \/ TupleBefore(m, o, 1)

\* Line 47: (?P<start>\d{4}-\d{2}-\d{2}).{0,5}(?P<end>\d{4}-\d{2}-\d{2})
Rx1Search(s) ==
    LET ms == {m \in (1..Len(s)) \X (0..5) :
                  DateAt(s, m[1]) /\ DateAt(s, m[1] + 10 + m[2])} IN
    IF ms = {} THEN NoRange
    ELSE LET m == FirstMatch(ms) IN
         <<SubSeq(s, m[1], m[1] + 9), SubSeq(s, m[1] + 10 + m[2], m[1] + 19 + m[2])>>

\* Line 48: from[_\-]?(?P<start>...).{0,5}until[_\-]?(?P<end>...)
Rx2Search(s) ==
    LET ms == {m \in (1..Len(s)) \X (0..1) \X (0..5) \X (0..1) :
                  /\ WordAt(s, m[1], <<"f", "r", "o", "m">>)
                  /\ SepAt(s, m[1] + 4, m[2])
                  /\ DateAt(s, m[1] + 4 + m[2])
                  /\ WordAt(s, m[1] + 14 + m[2] + m[3], <<"u", "n", "t", "i", "l">>)
                  /\ SepAt(s, m[1] + 19 + m[2] + m[3], m[4])
                  /\ DateAt(s, m[1] + 19 + m[2] + m[3] + m[4])} IN
    IF ms = {} THEN NoRange
    ELSE LET m == FirstMatch(ms)
             e == m[1] + 19 + m[2] + m[3] + m[4] IN
         <<SubSeq(s, m[1] + 4 + m[2], m[1] + 13 + m[2]), SubSeq(s, e, e + 9)>>

\* Lines 51-61: extract_date_range_from_name: both patterns on the base name,
\* then both on the whole name.
extract_date_range_from_name(name) ==
    LET base == Basename(name) IN
    IF Rx1Search(base) # NoRange THEN Rx1Search(base)
    ELSE IF Rx2Search(base) # NoRange THEN Rx2Search(base)
    ELSE IF Rx1Search(name) # NoRange THEN Rx1Search(name)
    ELSE Rx2Search(name)

\* Lines 107-109: the range discover_parquet_files records for a file: from
\* its path, else from its folder.
InferredRange(fpath) ==
    IF extract_date_range_from_name(fpath) # NoRange
    THEN extract_date_range_from_name(fpath)
    ELSE extract_date_range_from_name(Dirname(fpath))

(***************************************************************************)
(* The harvest orchestrator: harvest_preprints_dataframe (lines 477-624).  *)
(* One step is one pass of the batch loop up to the sub-window loop, one   *)
(* _process_subwindow call, or the end of a batch.  The partitioner and    *)
(* the streams are seen from outside: a batch has up to two (sub-window,   *)
(* prefix) pairs and a processed pair adds some rows.  all_rows is kept    *)
(* as the set of its dois: the DataFrame built from it (lines 610-617) is  *)
(* sorted and de-duplicated by doi.                                        *)
(***************************************************************************)
\* The directories tried for incremental_save_dir: a plain one, and one named
\* after the harvest range.
PlainDir == <<"o", "u", "t">>
DatedDir(a, b) == <<"r", "u", "n", "_">> \o IsoFormat(a) \o <<"_">> \o IsoFormat(b)

\* A row is represented by its doi; "" is a row without one (m.get("DOI") is None).
WindowRows == {<<>>, <<"X">>, <<"">>}
\* The (sub-window, prefix) pairs one batch may have.
SubSlots == {1, 2}
\* The totals a sub-window probe may return.
SubTotals == {0, 1, 2}
\* The values tried for doi_refetch_threshold.
RefetchThresholds == {0, 1}

\* The dois of a row sequence.
DoisOf(rows) == {rows[i] : i \in 1..Len(rows)}

\* Lines 523-533: the partitioner yields sub-windows only for a batch window
\* in which records can lie: for a window whose start_dt is after its end_dt
\* (batch_days 0 gives w_end = cur - 1) the count is 0 and nothing is yielded,
\* unless the probe raises.
NonEmptyWindow(c, w) == c <= w

\* Line 596: a shard is written for the batch.
WritesShardAlways(dir, rows) == dir # <<>>
WritesShard(dir, rows) == dir # <<>> /\ rows # <<>>

\* Line 602: to_parquet creates or replaces the file at path f; the other
\* files of the directory stay as they are.
KeptFilesNone(files, f) == {}
KeptFiles(files, f) == {sf \in files : sf.filepath # f}

\* Lines 542-544: use_doi_first.
UseDoiFirstBug(enabled, known, tot, thr) == enabled /\ known /\ tot >= thr
UseDoiFirst(enabled, known, tot, thr) == enabled /\ known /\ tot > thr

InitHarvest ==
    /\ date_start \in 0..(MaxDays - 1)
    /\ date_end \in 0..(MaxDays - 1)
    /\ batch_days \in 0..MaxBatchDays
    /\ incremental_save_dir \in {<<>>, PlainDir, DatedDir(date_start, date_end)}
    /\ doi_refetch_enabled \in BOOLEAN
    /\ doi_refetch_threshold \in RefetchThresholds
    /\ cur = date_start
    /\ w_end = date_start
    /\ nsub = 0
    /\ batch_rows = <<>>
    /\ all_rows = {}
    /\ shard_files = {}
    /\ last_sub = NoSub
    /\ hpc = "loop"
    /\ PartitionIdle
    /\ FetchIdle
    /\ StreamIdle
    /\ MergeIdle
    /\ DiscoverIdle
    /\ SchemaIdle
    /\ RehydrateIdle

\* Lines 516-533: the next batch window starts.
BatchStart ==
    /\ hpc = "loop" /\ cur <= date_end
    /\ w_end' = Min(cur + batch_days - 1, date_end)
    /\ batch_rows' = <<>>
    /\ nsub' = 0
    /\ hpc' = "windows"
    /\ UNCHANGED <<date_start, date_end, batch_days, incremental_save_dir,
                   doi_refetch_enabled, doi_refetch_threshold, cur, all_rows,
                   shard_files, last_sub>>
    /\ HarvestOnly

\* Lines 536-540, 542-588: the probe of _process_subwindow raises: a warning
\* is printed, sub_total is None, and the window is streamed directly.
ProcessProbeFailed ==
    /\ hpc = "windows" /\ nsub < Cardinality(SubSlots)
    /\ NonEmptyWindow(cur, w_end)
    /\ \E rows \in WindowRows :
          /\ ~UseDoiFirst(doi_refetch_enabled, FALSE, 0, doi_refetch_threshold)
          /\ batch_rows' = batch_rows \o rows
    /\ last_sub' = [probe |-> "failed", sub_total |-> 0, path |-> "direct",
                    warned |-> TRUE]
    /\ nsub' = nsub + 1
    /\ UNCHANGED <<date_start, date_end, batch_days, incremental_save_dir,
                   doi_refetch_enabled, doi_refetch_threshold, cur, w_end,
                   all_rows, shard_files, hpc>>
    /\ HarvestOnly

\* Lines 536-567: the probe gives a total for which use_doi_first holds: the
\* DOI list is streamed and each DOI is fetched; a fetch that fails or gives
\* an empty record adds no row.
ProcessDoiFirst ==
    /\ hpc = "windows" /\ nsub < Cardinality(SubSlots)
    /\ NonEmptyWindow(cur, w_end)
    /\ \E tot \in SubTotals, rows \in WindowRows :
          /\ UseDoiFirst(doi_refetch_enabled, TRUE, tot, doi_refetch_threshold)
          /\ batch_rows' = batch_rows \o rows
          /\ last_sub' = [probe |-> "ok", sub_total |-> tot, path |-> "doi_first",
                          warned |-> FALSE]
    /\ nsub' = nsub + 1
    /\ UNCHANGED <<date_start, date_end, batch_days, incremental_save_dir,
                   doi_refetch_enabled, doi_refetch_threshold, cur, w_end,
                   all_rows, shard_files, hpc>>
    /\ HarvestOnly

\* Lines 536-544, 569-588: the probe gives a total for which use_doi_first
\* does not hold: the window is streamed directly.
ProcessDirect ==
    /\ hpc = "windows" /\ nsub < Cardinality(SubSlots)
    /\ NonEmptyWindow(cur, w_end)
    /\ \E tot \in SubTotals, rows \in WindowRows :
          /\ ~UseDoiFirst(doi_refetch_enabled, TRUE, tot, doi_refetch_threshold)
          /\ batch_rows' = batch_rows \o rows
          /\ last_sub' = [probe |-> "ok", sub_total |-> tot, path |-> "direct",
                          warned |-> FALSE]
    /\ nsub' = nsub + 1
    /\ UNCHANGED <<date_start, date_end, batch_days, incremental_save_dir,
                   doi_refetch_enabled, doi_refetch_threshold, cur, w_end,
                   all_rows, shard_files, hpc>>
    /\ HarvestOnly

\* Lines 527-533, 550, 581: the partitioner's probe or a stream raises: the
\* exception leaves harvest_preprints_dataframe (lines 619-623 only close the
\* NDJSON file).
BatchRaises ==
    /\ hpc = "windows"
    /\ hpc' = "raised"
    /\ UNCHANGED <<date_start, date_end, batch_days, incremental_save_dir,
                   doi_refetch_enabled, doi_refetch_threshold, cur, w_end, nsub,
                   batch_rows, all_rows, shard_files, last_sub>>
    /\ HarvestOnly

\* Lines 596-608: the partitioner is exhausted; the batch has rows and a
\* directory is configured: the shard is written; the rows join all_rows.
BatchSaveShard ==
    /\ hpc = "windows"
    /\ WritesShard(incremental_save_dir, batch_rows)
    /\ LET f == BatchFilename(incremental_save_dir, cur, w_end) IN
         shard_files' = KeptFiles(shard_files, f)
                           \cup {[filepath |-> f, cur |-> cur, w_end |-> w_end,
                                  rows |-> batch_rows]}
    /\ all_rows' = all_rows \cup DoisOf(batch_rows)
    /\ cur' = w_end + 1
    /\ hpc' = "loop"
    /\ UNCHANGED <<date_start, date_end, batch_days, incremental_save_dir,
                   doi_refetch_enabled, doi_refetch_threshold, w_end, nsub,
                   batch_rows, last_sub>>
    /\ HarvestOnly

\* Lines 596-602: to_parquet raises: the exception leaves
\* harvest_preprints_dataframe; the file of this batch is absent or left
\* incomplete (no readable row).
BatchSaveRaises ==
    /\ hpc = "windows"
    /\ WritesShard(incremental_save_dir, batch_rows)
    /\ LET f == BatchFilename(incremental_save_dir, cur, w_end) IN
         \/ shard_files' = shard_files
         \/ shard_files' = KeptFiles(shard_files, f)
                              \cup {[filepath |-> f, cur |-> cur, w_end |-> w_end,
                                     rows |-> <<>>]}
    /\ hpc' = "raised"
    /\ UNCHANGED <<date_start, date_end, batch_days, incremental_save_dir,
                   doi_refetch_enabled, doi_refetch_threshold, cur, w_end, nsub,
                   batch_rows, all_rows, last_sub>>
    /\ HarvestOnly

\* Lines 596-608: no directory is configured or the batch has no row: no
\* shard is written.
BatchNoShard ==
    /\ hpc = "windows"
    /\ ~WritesShard(incremental_save_dir, batch_rows)
    /\ all_rows' = all_rows \cup DoisOf(batch_rows)
    /\ cur' = w_end + 1
    /\ hpc' = "loop"
    /\ UNCHANGED <<date_start, date_end, batch_days, incremental_save_dir,
                   doi_refetch_enabled, doi_refetch_threshold, w_end, nsub,
                   batch_rows, shard_files, last_sub>>
    /\ HarvestOnly

\* Lines 518, 610-618: the loop is over: the DataFrame is built and returned.
HarvestReturn ==
    /\ hpc = "loop" /\ cur > date_end
    /\ hpc' = "done"
    /\ UNCHANGED <<date_start, date_end, batch_days, incremental_save_dir,
                   doi_refetch_enabled, doi_refetch_threshold, cur, w_end, nsub,
                   batch_rows, all_rows, shard_files, last_sub>>
    /\ HarvestOnly

NextHarvest ==
    \/ BatchStart
    \/ ProcessProbeFailed
    \/ ProcessDoiFirst
    \/ ProcessDirect
    \/ BatchRaises
    \/ BatchSaveShard
    \/ BatchSaveRaises
    \/ BatchNoShard
    \/ HarvestReturn

SpecHarvest == InitHarvest /\ [][NextHarvest]_vars

\* The while loop of line 518 keeps running: an enabled step of the run is
\* eventually taken.
SpecHarvestFair == SpecHarvest /\ WF_vars(NextHarvest)

(***************************************************************************)
(* Claims about the harvest orchestrator and its shard names.              *)
(***************************************************************************)
\* C13: for every shard the harvester wrote for a batch [cur, w_end], the
\* merger's date-range inference on the shard's name gives that batch's start
\* and end dates.
C13_ShardNameRoundTrip ==
    \A sf \in shard_files :
        extract_date_range_from_name(sf.filepath)
            = <<IsoFormat(sf.cur), IsoFormat(sf.w_end)>>

\* C20: the DOI-first path is taken exactly when rehydration is enabled, the
\* probe gave a total and the total is above doi_refetch_threshold; a failed
\* probe is warned about and followed by direct streaming.
C20_RehydrationDecision ==
    last_sub # NoSub =>
        /\ last_sub.path = "doi_first" <=>
              (/\ doi_refetch_enabled
               /\ last_sub.probe = "ok"
               /\ last_sub.sub_total > doi_refetch_threshold)
        /\ last_sub.path \in {"doi_first", "direct"}
        /\ last_sub.probe = "failed" => (last_sub.warned /\ last_sub.path = "direct")

\* C20 witness: in one run a window was rehydrated, and a later window of the
\* same batch, whose probe failed, was streamed directly.
C20_Witness ==
    /\ last_sub.probe = "failed" /\ last_sub.path = "direct"
    /\ doi_refetch_enabled /\ doi_refetch_threshold = 1
    /\ nsub >= 2
    /\ Len(batch_rows) >= 2

\* The name line 600 gives the shard of the batch [c, w]: both dates as
\* YYYYMMDD.
ShardName(c, w) ==
    <<"c", "r", "o", "s", "s", "r", "e", "f", "_",
      "p", "r", "e", "p", "r", "i", "n", "t", "s", "_">>
    \o Pad4(YearOf(c)) \o Pad2(MonthOf(c)) \o Pad2(DayOf(c)) \o <<"_">>
    \o Pad4(YearOf(w)) \o Pad2(MonthOf(w)) \o Pad2(DayOf(w))
    \o <<".", "p", "a", "r", "q", "u", "e", "t">>

\* A batch window finishes: the loop of line 518 goes on to the next one.
BatchFinishes == hpc = "windows" /\ hpc' = "loop"

\* C22: when a batch window finishes, exactly one file is added, in the
\* incremental directory, named with the batch's start and end dates and
\* holding exactly the batch's rows, if a directory is configured and the
\* batch has at least one row; otherwise no file is written.
C22_OneShardPerBatch ==
    [][BatchFinishes =>
          IF incremental_save_dir # <<>> /\ batch_rows # <<>>
          THEN /\ Cardinality(shard_files' \ shard_files) = 1
               /\ shard_files \subseteq shard_files'
               /\ \A sf \in shard_files' \ shard_files :
                     /\ Dirname(sf.filepath) = incremental_save_dir
                     /\ Basename(sf.filepath) = ShardName(cur, w_end)
                     /\ sf.rows = batch_rows
          ELSE shard_files' = shard_files]_vars

\* C22 witness: a finished run of two batches with a directory configured:
\* one batch had rows and got its shard, the other had none and got no file.
C22_Witness ==
    /\ hpc = "done" /\ incremental_save_dir # <<>>
    /\ date_start = 0 /\ date_end = 1 /\ batch_days = 1
    /\ Cardinality(shard_files) = 1
    /\ \E sf \in shard_files : sf.cur = 0 /\ sf.rows # <<>>

\* C23: no step of the run rewrites or deletes a shard file that was written:
\* whatever happens later, a fatal error included, every shard of an earlier
\* batch is still there with the same rows.
C23_ShardsImmutable == [][shard_files \subseteq shard_files']_vars

\* C23 witness: the run ended by an exception in its second batch, whose rows
\* in memory are lost; the shard of the first batch is on disk.
C23_Witness ==
    /\ hpc = "raised" /\ batch_rows # <<>> /\ cur = 1
    /\ \E sf \in shard_files : sf.cur = 0 /\ sf.rows # <<>>

\* C31: every row appended to a batch, on the direct path and on the
\* rehydration path, and every row written to a shard carries a doi.
C31_RowsCarryDoi ==
    /\ \A i \in 1..Len(batch_rows) : batch_rows[i] # ""
    /\ \A sf \in shard_files : \A i \in 1..Len(sf.rows) : sf.rows[i] # ""

\* C33: for every date range with start <= end and every batch_days the
\* function accepts, the batch loop terminates (having visited consecutive
\* windows that cover the range).
C33_BatchLoopTerminates ==
    (date_start <= date_end) => <>(hpc \in {"done", "raised"})

(***************************************************************************)
(* Shard discovery: discover_parquet_files (merge_parquets.py, lines       *)
(* 63-122), with name_contains left at its default "".  The disk has a     *)
(* directory "runs", its subdirectory "runs/a" and possibly a directory    *)
(* "gone" that does not exist.  One step is one pass of the loop over      *)
(* parents up to the loop over folders, or the scan of one folder.         *)
(***************************************************************************)
\* The directories that exist, and the parent each one lies in ("" for none).
DirParent == [runs |-> "", sub |-> "runs"]
Dirs == DOMAIN DirParent
\* The .parquet files that may exist.
FilePool == {[dir |-> "runs", name |-> "r.parquet"],
             [dir |-> "sub", name |-> "s1.parquet"],
             [dir |-> "sub", name |-> "s2.parquet"]}

\* Directory d is folder f or lies below it.
RECURSIVE Below(_, _)
Below(d, f) == d = f \/ (d \in Dirs /\ DirParent[d] # "" /\ Below(DirParent[d], f))

\* Line 82-83: glob.iglob of folder/*.parquet, or of folder/**/*.parquet when
\* recursive: the files found, in some order.
Glob(folder, rec) ==
    {fl \in disk : IF rec THEN Below(fl.dir, folder) ELSE fl.dir = folder}

\* Lines 71-78: the folders scanned for a parent.
FoldersOf(parent) ==
    IF recursive THEN <<parent>>
    ELSE IF one_level_deep
         THEN (IF \E d \in Dirs : DirParent[d] = parent
               THEN <<CHOOSE d \in Dirs : DirParent[d] = parent>> ELSE <<>>)
              \o <<parent>>
         ELSE <<parent>>

\* Line 80: where seen is emptied.
SeenAtParent(sn) == {}

\* The sequences that list the elements of the finite set S once each.
Orderings(S) ==
    {q \in [1..Cardinality(S) -> S] : \A i, j \in 1..Cardinality(S) : q[i] = q[j] => i = j}

InitDiscover ==
    /\ disk \in SUBSET FilePool
    /\ \E n \in 1..MaxParents : parents \in [1..n -> Dirs \cup {"gone"}]
    /\ recursive \in BOOLEAN
    /\ one_level_deep \in BOOLEAN
    /\ pidx = 1
    /\ folders = <<>>
    /\ seen = {}
    /\ records = <<>>
    /\ dpc = "parent"
    /\ PartitionIdle
    /\ FetchIdle
    /\ StreamIdle
    /\ MergeIdle
    /\ HarvestIdle
    /\ SchemaIdle
    /\ RehydrateIdle

\* Lines 65-69: the parent does not exist: warn and go on.
ParentMissing ==
    /\ dpc = "parent" /\ pidx <= Len(parents)
    /\ parents[pidx] \notin Dirs
    /\ pidx' = pidx + 1
    /\ UNCHANGED <<disk, parents, recursive, one_level_deep, folders, seen, records, dpc>>
    /\ DiscoverOnly

\* Lines 65-80: the folders of the parent are listed and seen is emptied.
ParentEnter ==
    /\ dpc = "parent" /\ pidx <= Len(parents)
    /\ parents[pidx] \in Dirs
    /\ folders' = FoldersOf(parents[pidx])
    /\ seen' = SeenAtParent(seen)
    /\ dpc' = "folders"
    /\ UNCHANGED <<disk, parents, recursive, one_level_deep, pidx, records>>
    /\ DiscoverOnly

\* Lines 81-120: one folder is scanned: every file found that is not in seen
\* is added to seen and gets a record.
ScanFolder ==
    /\ dpc = "folders" /\ folders # <<>>
    /\ LET folder == Head(folders)
           found == Glob(folder, recursive) \ seen IN
         /\ \E q \in Orderings(found) :
               records' = records \o [i \in 1..Len(q) |->
                                         [folder |-> folder, filepath |-> q[i]]]
         /\ seen' = seen \cup found
    /\ folders' = Tail(folders)
    /\ UNCHANGED <<disk, parents, recursive, one_level_deep, pidx, dpc>>
    /\ DiscoverOnly

\* Line 81: the folders of the parent are done: next parent.
ParentDone ==
    /\ dpc = "folders" /\ folders = <<>>
    /\ pidx' = pidx + 1
    /\ dpc' = "parent"
    /\ UNCHANGED <<disk, parents, recursive, one_level_deep, folders, seen, records>>
    /\ DiscoverOnly

\* Line 122: return records.
DiscoverReturn ==
    /\ dpc = "parent" /\ pidx > Len(parents)
    /\ dpc' = "done"
    /\ UNCHANGED <<disk, parents, recursive, one_level_deep, pidx, folders, seen, records>>
    /\ DiscoverOnly

NextDiscover ==
    \/ ParentMissing
    \/ ParentEnter
    \/ ScanFolder
    \/ ParentDone
    \/ DiscoverReturn

SpecDiscover == InitDiscover /\ [][NextDiscover]_vars

\* C14: the records returned by a discovery hold each file path at most once,
\* also when a file is reachable from more than one of the parents given.
C14_DiscoveryUnique ==
    dpc = "done" =>
        \A i, j \in 1..Len(records) :
            records[i].filepath = records[j].filepath => i = j

(***************************************************************************)
(* Schemas in the merge: _collect_unified_schema (lines 133-151),          *)
(* _align_table_to_schema (lines 153-166) and the loop of lines 223-246    *)
(* that uses them.  A schema is a sequence of fields; a shard is its       *)
(* fields, its row count and whether its values survive a cast that        *)
(* depends on the values.  The pyarrow calls behave as the library does:   *)
(* unify_schemas (default options) merges a null-typed field with any      *)
(* type and raises on any other type difference; Array has no rename       *)
(* method; pa.table(cols, schema=...) casts each column to its field's     *)
(* type and raises when that cast fails.                                   *)
(***************************************************************************)
Field(n, t) == [name |-> n, type |-> t]

\* The two shards of the scenario, with 2 and 1 rows for 10 and 5.
ScenarioShard1 ==
    [fields |-> <<Field("doi", "string"), Field("score", "int32")>>,
     num_rows |-> 2, castable |-> TRUE]
ScenarioShard2 ==
    [fields |-> <<Field("doi", "string"), Field("score", "float64"),
                  Field("language", "string")>>,
     num_rows |-> 1, castable |-> TRUE]

\* The shard files tried.
TablePool ==
    {ScenarioShard1, ScenarioShard2,
     [fields |-> <<Field("doi", "string"), Field("score", "float64"),
                   Field("language", "null")>>,
      num_rows |-> 1, castable |-> TRUE],
     [fields |-> <<Field("doi", "string"), Field("score", "string")>>,
      num_rows |-> 1, castable |-> FALSE],
     [fields |-> <<Field("doi", "string"), Field("year", "int64")>>,
      num_rows |-> 1, castable |-> TRUE],
     [fields |-> <<Field("doi", "string"), Field("year", "float64")>>,
      num_rows |-> 1, castable |-> TRUE],
     [fields |-> <<Field("doi", "string"), Field("score", "float64")>>,
      num_rows |-> TruncationCap, castable |-> TRUE]}

Names(sch) == {sch[i].name : i \in 1..Len(sch)}
TypeOf(sch, n) == (CHOOSE f \in {sch[i] : i \in 1..Len(sch)} : f.name = n).type

\* Lines 139-146: a score field that is not float64 is declared float64.
NormalizeScore(sch) ==
    [i \in 1..Len(sch) |->
        IF sch[i].name = "score" /\ sch[i].type # "float64"
        THEN Field("score", "float64") ELSE sch[i]]

\* pa.unify_schemas on two schemas: fields of the same name must have the
\* same type, or one of them the null type.
Compatible(a, b) ==
    \A n \in Names(a) \cap Names(b) :
        \/ TypeOf(a, n) = TypeOf(b, n)
        \/ TypeOf(a, n) = "null"
        \/ TypeOf(b, n) = "null"

\* A unification that would keep the fields of both schemas side by side.
UnifyTwoAppend(a, b) == a \o b

\* The merged schema: the fields of a in order (a null type giving way to the
\* type of b), then the fields only b has.
UnifyTwo(a, b) ==
    [i \in 1..Len(a) |->
        IF a[i].type = "null" /\ a[i].name \in Names(b)
        THEN Field(a[i].name, TypeOf(b, a[i].name)) ELSE a[i]]
    \o SelectSeq(b, LAMBDA f : f.name \notin Names(a))

\* Line 151: pa.unify_schemas(schemas): ok is FALSE when it raises.
RECURSIVE UnifySchemas(_, _)
UnifySchemas(acc, rest) ==
    IF rest = <<>> THEN [ok |-> TRUE, fields |-> acc]
    ELSE IF ~Compatible(acc, Head(rest)) THEN [ok |-> FALSE, fields |-> <<>>]
    ELSE UnifySchemas(UnifyTwo(acc, Head(rest)), Tail(rest))

\* Lines 158-162: pa.compute.cast of a column of type from to type to succeeds.
CastOk(from, to, castable) ==
    \/ from = to
    \/ from = "null"
    \/ (from = "int32" /\ to \in {"int64", "float64"})
    \/ castable

\* The fields of sch that the shard tbl has with a type that cannot be cast.
CastFailures(tbl, sch) ==
    {n \in Names(sch) \cap Names(tbl.fields) :
        ~CastOk(TypeOf(tbl.fields, n), TypeOf(sch, n), tbl.castable)}

\* The fields of sch that the shard tbl lacks.
MissingColumns(tbl, sch) == Names(sch) \ Names(tbl.fields)

\* Lines 153-166: _align_table_to_schema returns a table: no column is
\* missing (line 165 calls rename on an Array, which has no such method) and
\* no cast failed (line 166 casts the column left as it was once more).
AlignOk(tbl, sch) == MissingColumns(tbl, sch) = {} /\ CastFailures(tbl, sch) = {}

InitSchema ==
    /\ \E n \in 1..MaxShards :
          /\ tables \in [1..n -> TablePool]
          /\ \E K \in SUBSET (1..n) :
                recs = [i \in 1..n |->
                    DiscoveredRecord(IF i \in K THEN tables[i].num_rows ELSE UnknownRows)]
    /\ schemas = <<>>
    /\ schema_failed = {}
    /\ unified_schema = <<>>
    /\ sidx = 1
    /\ outcome = <<>>
    /\ rows_written = 0
    /\ abort = "none"
    /\ apc = "schema"
    /\ PartitionIdle
    /\ FetchIdle
    /\ StreamIdle
    /\ MergeIdle
    /\ HarvestIdle
    /\ DiscoverIdle
    /\ RehydrateIdle

\* Lines 135-147: the schema of the next shard is read and normalized.
SchemaRead ==
    /\ apc = "schema" /\ sidx <= Len(tables)
    /\ schemas' = Append(schemas, NormalizeScore(tables[sidx].fields))
    /\ sidx' = sidx + 1
    /\ UNCHANGED <<recs, tables, schema_failed, unified_schema, outcome, rows_written,
                   abort, apc>>
    /\ SchemaOnly

\* Lines 136-137, 148-149: the schema of the next shard cannot be read: warn.
SchemaUnreadable ==
    /\ apc = "schema" /\ sidx <= Len(tables)
    /\ schema_failed' = schema_failed \cup {sidx}
    /\ sidx' = sidx + 1
    /\ UNCHANGED <<recs, tables, schemas, unified_schema, outcome, rows_written,
                   abort, apc>>
    /\ SchemaOnly

\* Lines 150, 192-194: no schema was read: the unified schema is empty and
\* merge_parquets_and_report raises RuntimeError.
UnifyEmpty ==
    /\ apc = "schema" /\ sidx > Len(tables)
    /\ schemas = <<>>
    /\ abort' = "empty"
    /\ apc' = "raised"
    /\ UNCHANGED <<recs, tables, schemas, schema_failed, unified_schema, sidx, outcome,
                   rows_written>>
    /\ SchemaOnly

\* Lines 150, 192: pa.unify_schemas raises: the exception leaves
\* merge_parquets_and_report.
UnifyRaises ==
    /\ apc = "schema" /\ sidx > Len(tables)
    /\ schemas # <<>>
    /\ ~UnifySchemas(Head(schemas), Tail(schemas)).ok
    /\ abort' = "unify"
    /\ apc' = "raised"
    /\ UNCHANGED <<recs, tables, schemas, schema_failed, unified_schema, sidx, outcome,
                   rows_written>>
    /\ SchemaOnly

\* Lines 150, 192-222: the schemas are unified and the merge loop starts.
Unify ==
    /\ apc = "schema" /\ sidx > Len(tables)
    /\ schemas # <<>>
    /\ UnifySchemas(Head(schemas), Tail(schemas)).ok
    /\ unified_schema' = UnifySchemas(Head(schemas), Tail(schemas)).fields
    /\ sidx' = 1
    /\ apc' = "loop"
    /\ UNCHANGED <<recs, tables, schemas, schema_failed, outcome, rows_written, abort>>
    /\ SchemaOnly

\* Lines 224-225, 245-246: pq.read_table raises: the shard is skipped.
TableUnreadable ==
    /\ apc = "loop" /\ sidx <= Len(tables)
    /\ outcome' = Append(outcome, [status |-> "unreadable", fields |-> <<>>,
                                   num_rows |-> 0])
    /\ sidx' = sidx + 1
    /\ UNCHANGED <<recs, tables, schemas, schema_failed, unified_schema, rows_written,
                   abort, apc>>
    /\ SchemaOnly

\* Lines 224-226, 245-246: the table is read and _align_table_to_schema
\* raises: the shard is skipped.
AlignRaises ==
    /\ apc = "loop" /\ sidx <= Len(tables)
    /\ ~AlignOk(tables[sidx], unified_schema)
    /\ outcome' = Append(outcome, [status |-> "align_error", fields |-> <<>>,
                                   num_rows |-> 0])
    /\ sidx' = sidx + 1
    /\ UNCHANGED <<recs, tables, schemas, schema_failed, unified_schema, rows_written,
                   abort, apc>>
    /\ SchemaOnly

\* Lines 224-243: the table is read, aligned to the unified schema, written
\* and counted.
AlignWritten ==
    /\ apc = "loop" /\ sidx <= Len(tables)
    /\ AlignOk(tables[sidx], unified_schema)
    /\ outcome' = Append(outcome, [status |-> "written", fields |-> unified_schema,
                                   num_rows |-> tables[sidx].num_rows])
    /\ rows_written' = rows_written + tables[sidx].num_rows
    /\ sidx' = sidx + 1
    /\ UNCHANGED <<recs, tables, schemas, schema_failed, unified_schema, abort, apc>>
    /\ SchemaOnly

\* Lines 223, 248-327: the loop is over; the merge finishes.
SchemaMergeDone ==
    /\ apc = "loop" /\ sidx > Len(tables)
    /\ apc' = "done"
    /\ UNCHANGED <<recs, tables, schemas, schema_failed, unified_schema, sidx, outcome,
                   rows_written, abort>>
    /\ SchemaOnly

NextSchema ==
    \/ SchemaRead
    \/ SchemaUnreadable
    \/ UnifyEmpty
    \/ UnifyRaises
    \/ Unify
    \/ TableUnreadable
    \/ AlignRaises
    \/ AlignWritten
    \/ SchemaMergeDone

SpecSchema == InitSchema /\ [][NextSchema]_vars

(***************************************************************************)
(* Claims about schemas in the merge.                                      *)
(***************************************************************************)
\* The shards whose schema was read.
SchemaReadable == (1..Len(tables)) \ schema_failed

\* Some column has different types in two shards whose schema was read.
TypeConflict ==
    \E i, j \in SchemaReadable :
        \E n \in Names(tables[i].fields) \cap Names(tables[j].fields) :
            TypeOf(tables[i].fields, n) # TypeOf(tables[j].fields, n)

\* C15: once the schemas are collected, when some column has different types
\* in different readable shards the unification has not raised, and the
\* unified schema has exactly one field for every column of those shards.
C15_TypePromotion ==
    (apc \in {"loop", "done", "raised"} /\ TypeConflict) =>
        /\ abort = "none"
        /\ \A i \in SchemaReadable : \A n \in Names(tables[i].fields) :
              Cardinality({k \in 1..Len(unified_schema) : unified_schema[k].name = n}) = 1

\* C16: every shard that was read and whose columns can be cast is written
\* with exactly the unified schema's fields and all its rows, also when it
\* lacks columns of the unified schema; in the two-shard scenario the unified
\* schema is {doi: string, score: float64, language: string} and the rows of
\* both shards are written.
C16_AlignedToUnified ==
    /\ \A i \in 1..Len(outcome) :
          (outcome[i].status # "unreadable"
                /\ CastFailures(tables[i], unified_schema) = {}) =>
             /\ outcome[i].status = "written"
             /\ outcome[i].fields = unified_schema
             /\ outcome[i].num_rows = tables[i].num_rows
    /\ (/\ apc = "done"
        /\ tables = <<ScenarioShard1, ScenarioShard2>>
        /\ schema_failed = {}
        /\ \A i \in 1..Len(outcome) : outcome[i].status # "unreadable") =>
          /\ unified_schema = <<Field("doi", "string"), Field("score", "float64"),
                                Field("language", "string")>>
          /\ rows_written = ScenarioShard1.num_rows + ScenarioShard2.num_rows

\* C19: a shard that was read, has every column of the unified schema and has
\* a column whose cast to the unified type fails is still written with all its
\* rows, and the merge has not raised.
C19_CastFailureNotFatal ==
    \A i \in 1..Len(outcome) :
        (/\ outcome[i].status # "unreadable"
         /\ MissingColumns(tables[i], unified_schema) = {}
         /\ CastFailures(tables[i], unified_schema) # {}) =>
            /\ outcome[i].status = "written"
            /\ outcome[i].num_rows = tables[i].num_rows
            /\ apc # "raised"

\* The unified schema is collected again from k shards that all carry it
\* (lines 135-151 applied to k copies of u).
Reunified(u, k) ==
    UnifySchemas(NormalizeScore(u), [i \in 1..(k - 1) |-> NormalizeScore(u)])

\* C26: schema promotion is stable: unifying the unified schema with itself,
\* or collecting it again from shards that all already have it, yields the
\* same schema, column for column and type for type.
C26_PromotionStable ==
    apc \in {"loop", "done"} =>
        \A k \in 1..(MaxShards + 1) :
            Reunified(unified_schema, k) = [ok |-> TRUE, fields |-> unified_schema]

\* C26 witness: a finished merge of two different shards whose unified schema
\* has a promoted score column and a column only one shard had.
C26_Witness ==
    /\ apc = "done" /\ Len(tables) >= 2
    /\ tables[1] = ScenarioShard1 /\ tables[2] = ScenarioShard2
    /\ Len(unified_schema) = 3
    /\ TypeOf(unified_schema, "score") = "float64"

\* C25: a discovered shard is flagged suspected_incomplete exactly when its
\* row count is known and equals 2000, and the flag excludes nothing: a shard
\* with exactly 2000 rows that the merge loop could read contributes all its
\* 2000 rows to the merged output.
C25_SuspectedIsAdvisory ==
    /\ \A i \in 1..Len(recs) :
          recs[i].suspected_incomplete = "True"
              <=> (recs[i].rows # UnknownRows /\ recs[i].rows = TruncationCap)
    /\ \A i \in 1..Len(outcome) :
          (outcome[i].status # "unreadable" /\ tables[i].num_rows = TruncationCap)
              => (outcome[i].status = "written" /\ outcome[i].num_rows = TruncationCap)

(***************************************************************************)
(* Claims about the files of the merge.                                    *)
(***************************************************************************)
\* C17: the final columnar file exists only as the renamed temporary file of
\* a closed writer, and when the merge has returned with the columnar output
\* reported as skipped (None), no temporary file is left on disk.
C17_AtomicFinalize ==
    /\ final_exists => (writer = "closed" /\ ~tmp_exists /\ out_parquet = tmp_rows)
    /\ (mpc = "done" /\ ret_parquet = "None") => (~tmp_exists /\ ~final_exists)

\* C18: when the merge has returned, no shard whose schema could not be read
\* during unification was merged: none of its rows were written or counted.
C18_SchemaUnreadableSkipped ==
    mpc = "done" =>
        \A i \in 1..Len(shards) : i \notin schema_read => i \notin merged

\* The shards whose discovered row count is known.
KnownRows == {i \in 1..Len(report_df) : report_df[i].rows # UnknownRows}

\* C24: the audit table has one row per discovered shard whether or not the
\* shard was merged, and the summary reports the number of discovered shards,
\* the sum of their known row counts, the number of rows actually written to
\* the merged output (the CSV, or the Parquet file when it exists) and the
\* number of suspected-incomplete shards.
C24_AuditComplete ==
    mpc = "done" =>
        /\ Len(report_df) = Len(shards)
        /\ report.n_files = Len(shards)
        /\ report.total_rows = SumRows([i \in 1..Len(shards) |->
                [rows |-> IF i \in KnownRows THEN Len(shards[i]) ELSE UnknownRows]])
        /\ \/ report.total_rows_written = Len(out_csv)
           \/ final_exists /\ report.total_rows_written = Len(out_parquet)
        /\ report.n_suspect =
               Cardinality({i \in KnownRows : Len(shards[i]) = TruncationCap})

\* C32: at the end of the merge, when the Parquet output is reported as
\* written, the Parquet file and the CSV mirror hold the rows of exactly the
\* same shards, and the reported number of rows written is the number of rows
\* of each of them.
C32_OutputsConsistent ==
    (mpc = "done" /\ ret_parquet = "path") =>
        /\ final_exists
        /\ out_parquet = out_csv
        /\ report.total_rows_written = Len(out_parquet)
        /\ report.total_rows_written = Len(out_csv)

(***************************************************************************)
(* Rehydration: the DOI-first branch of _process_subwindow                 *)
(* (harvest_crossref.py, lines 546-567) with _fetch_work_by_doi (lines     *)
(* 312-334) and the items of _stream_doi_only (lines 291-296).  NDJSON     *)
(* output is off and doi_refetch_sleep_s is 0.  One step is one listing    *)
(* item without a DOI, or one attempt of _fetch_work_by_doi together with  *)
(* what the caller does with its result.                                   *)
(***************************************************************************)
ListingItems == {"X", "Y", ""}

\* Lines 564-565: the exception of one DOI is caught and printed; the for
\* loop of line 550 goes on.
AfterFailureUncaught == "raised"
AfterFailure == "loop"

\* One more entry of the history: the item, what happened, whether a message
\* naming it was printed.
Trailed(doi, what, printed) ==
    Append(trail, [doi |-> doi, outcome |-> what, logged |-> printed])

\* The window's listing as the API will serve it.
InitRehydrate ==
    /\ \E n \in 0..MaxListing : listing \in [1..n -> ListingItems]
    /\ lpos = 1
    /\ work_attempt = 0
    /\ work_last_exc = FALSE
    /\ appended = <<>>
    /\ processed = 0
    /\ trail = <<>>
    /\ rpc = "loop"
    /\ PartitionIdle
    /\ FetchIdle
    /\ StreamIdle
    /\ MergeIdle
    /\ HarvestIdle
    /\ DiscoverIdle
    /\ SchemaIdle

\* Lines 291-296: a listing item without a DOI is not yielded; nothing is
\* printed.
ListingNoDoi ==
    /\ rpc = "loop" /\ lpos <= Len(listing)
    /\ listing[lpos] = ""
    /\ trail' = Trailed("", "no_doi", FALSE)
    /\ lpos' = lpos + 1
    /\ UNCHANGED <<listing, work_attempt, work_last_exc, appended, processed, rpc>>
    /\ RehydrateOnly

\* Lines 316-321, 552-559: status 200 with a record: the row is built and
\* appended to batch_rows.
WorkOk ==
    /\ rpc = "loop" /\ lpos <= Len(listing)
    /\ listing[lpos] # "" /\ work_attempt < MaxWorkRetries
    /\ appended' = Append(appended, listing[lpos])
    /\ processed' = processed + 1
    /\ trail' = Trailed(listing[lpos], "row", FALSE)
    /\ lpos' = lpos + 1
    /\ work_attempt' = 0
    /\ work_last_exc' = FALSE
    /\ UNCHANGED <<listing, rpc>>
    /\ RehydrateOnly

\* Lines 316-321, 552-554: status 200 with no message (j.get("message") or
\* {}): the DOI is passed over; nothing is printed.
WorkEmpty ==
    /\ rpc = "loop" /\ lpos <= Len(listing)
    /\ listing[lpos] # "" /\ work_attempt < MaxWorkRetries
    /\ trail' = Trailed(listing[lpos], "empty", FALSE)
    /\ lpos' = lpos + 1
    /\ work_attempt' = 0
    /\ work_last_exc' = FALSE
    /\ UNCHANGED <<listing, appended, processed, rpc>>
    /\ RehydrateOnly

\* Lines 320, 555-565: status 200, and r.json() raises an exception that is
\* not a RequestException, or _one_row_wide raises: the except of line 564
\* prints the DOI.
WorkRowRaises ==
    /\ rpc = "loop" /\ lpos <= Len(listing)
    /\ listing[lpos] # "" /\ work_attempt < MaxWorkRetries
    /\ trail' = Trailed(listing[lpos], "raised", TRUE)
    /\ lpos' = lpos + 1
    /\ work_attempt' = 0
    /\ work_last_exc' = FALSE
    /\ rpc' = AfterFailure
    /\ UNCHANGED <<listing, appended, processed>>
    /\ RehydrateOnly

\* Lines 322-324: a retryable status (or one that raise_for_status lets
\* pass): the next attempt follows; last_exc is left as it is.
WorkRetryable ==
    /\ rpc = "loop" /\ lpos <= Len(listing)
    /\ listing[lpos] # "" /\ work_attempt < MaxWorkRetries
    /\ work_attempt' = work_attempt + 1
    /\ UNCHANGED <<listing, lpos, work_last_exc, appended, processed, trail, rpc>>
    /\ RehydrateOnly

\* Lines 318, 325-332: requests.get raises, or an error status makes
\* raise_for_status raise: last_exc is set and the next attempt follows.
WorkRequestError ==
    /\ rpc = "loop" /\ lpos <= Len(listing)
    /\ listing[lpos] # "" /\ work_attempt < MaxWorkRetries
    /\ work_attempt' = work_attempt + 1
    /\ work_last_exc' = TRUE
    /\ UNCHANGED <<listing, lpos, appended, processed, trail, rpc>>
    /\ RehydrateOnly

\* Lines 333-334, 564-565: the attempts are used up and last_exc is set: it
\* is raised, and the except of line 564 prints the DOI.
WorkExhaustedRaise ==
    /\ rpc = "loop" /\ lpos <= Len(listing)
    /\ listing[lpos] # "" /\ work_attempt = MaxWorkRetries
    /\ work_last_exc
    /\ trail' = Trailed(listing[lpos], "raised", TRUE)
    /\ lpos' = lpos + 1
    /\ work_attempt' = 0
    /\ work_last_exc' = FALSE
    /\ rpc' = AfterFailure
    /\ UNCHANGED <<listing, appended, processed>>
    /\ RehydrateOnly

\* Lines 333, 553-554: the attempts are used up, all on retryable statuses:
\* _fetch_work_by_doi returns None and the DOI is passed over; nothing is
\* printed.
WorkExhaustedNone ==
    /\ rpc = "loop" /\ lpos <= Len(listing)
    /\ listing[lpos] # "" /\ work_attempt = MaxWorkRetries
    /\ ~work_last_exc
    /\ trail' = Trailed(listing[lpos], "gave_up", FALSE)
    /\ lpos' = lpos + 1
    /\ work_attempt' = 0
    /\ UNCHANGED <<listing, work_last_exc, appended, processed, rpc>>
    /\ RehydrateOnly

\* Lines 277, 550: a page request of the DOI listing raises between two
\* items: the exception leaves _process_subwindow.
ListingRaises ==
    /\ rpc = "loop" /\ work_attempt = 0
    /\ rpc' = "raised"
    /\ UNCHANGED <<listing, lpos, work_attempt, work_last_exc, appended, processed,
                   trail>>
    /\ RehydrateOnly

\* Lines 550, 566-567: the listing is exhausted: the count is printed and
\* _process_subwindow returns.
ListingEnds ==
    /\ rpc = "loop" /\ lpos > Len(listing)
    /\ rpc' = "done"
    /\ UNCHANGED <<listing, lpos, work_attempt, work_last_exc, appended, processed,
                   trail>>
    /\ RehydrateOnly

NextRehydrate ==
    \/ ListingNoDoi
    \/ WorkOk
    \/ WorkEmpty
    \/ WorkRowRaises
    \/ WorkRetryable
    \/ WorkRequestError
    \/ WorkExhaustedRaise
    \/ WorkExhaustedNone
    \/ ListingRaises
    \/ ListingEnds

SpecRehydrate == InitRehydrate /\ [][NextRehydrate]_vars

(***************************************************************************)
(* Claims about rehydration.                                               *)
(***************************************************************************)
\* The dois of the history entries that gave a row, in order.
RowsOf(tr) == [i \in 1..Len(SelectSeq(tr, LAMBDA t : t.outcome = "row")) |->
                  SelectSeq(tr, LAMBDA t : t.outcome = "row")[i].doi]

\* C21: a failure to fetch the record of one identifier does not stop the
\* window: after any identifier is dealt with, failed or not, the loop goes on
\* with the next item; the rows of earlier identifiers stay in the batch; and
\* the window ends normally only after every item of the listing was taken.
C21_FailureNotFatal ==
    [][/\ Len(trail') > Len(trail) => (rpc' = "loop" /\ lpos' = lpos + 1)
       /\ appended' = RowsOf(trail')
       /\ SubSeq(appended', 1, Len(appended)) = appended
       /\ rpc' = "done" =>
             /\ Len(trail') = Len(listing)
             /\ \A i \in 1..Len(listing) : trail'[i].doi = listing[i]]_vars

\* C21 witness: the fetch of the first identifier failed after its retries,
\* the second identifier was then fetched, and the window ended normally.
C21_Witness ==
    /\ rpc = "done" /\ Len(trail) = 2
    /\ trail[1].outcome = "raised" /\ trail[2].outcome = "row"
    /\ appended = <<listing[2]>>

\* C28: every identifier or record dropped during rehydration (fetch raised,
\* fetch gave up after retries, empty record, listing item without a DOI) is
\* named in a printed message.
C28_EverySkipLogged ==
    \A i \in 1..Len(trail) : trail[i].outcome # "row" => trail[i].logged

=============================================================================
